---- MODULE Spec2Model ----
(***************************************************************************)
(* Video-poker round state machine (useGame hook) together with the game   *)
(* specs it consumes: Jacks or Better 8/5, Deuces Wild 25/16/13 and        *)
(* Double Double Bonus 9/6 (evaluator, paytable, hold advisor).            *)
(*                                                                         *)
(* Cards are the integers 0..51 in the construction order of newDeck():    *)
(* suit-major over ['♣','♦','♥','♠'], ranks 'A','K',...,'2' inside a suit. *)
(* Hand slots are 1..5 here (0..4 in the source).                          *)
(***************************************************************************)
EXTENDS Integers, Sequences, FiniteSets, TLC

(***************************************************************************)
(* Cards                                                                   *)
(***************************************************************************)
NumCards == 52
NumRanks == 13
HandSize == 5
AceVal == 14

Cards == 0 .. (NumCards - 1)
Slots == 1 .. HandSize

\* A slot holding the JavaScript value undefined (d.shift() on an empty
\* deck) and a hole of a sparse array (never assigned index).
Undef == 99
Hole == 98

IsCard(c) == c \in Cards

Nothing == "Nothing"
\* evaluateHand does not return: a TypeError leaves the caller at this point
THROW == "THROW"

\* suits[c \div 13] : 0 = clubs, 1 = diamonds, 2 = hearts, 3 = spades
SuitOf(c) == c \div NumRanks
\* V[rank] : 'A' -> 14, 'K' -> 13, ... '2' -> 2
ValOf(c) == AceVal - (c % NumRanks)

Clubs == 0
Diamonds == 1
Hearts == 2
Spades == 3

\* HIGHS with the ten among the paying pairs
HIGHS_WithTen == {10, 11, 12, 13, 14}
HIGHS == {11, 12, 13, 14}
ROYAL_SET == {10, 11, 12, 13, 14}
WHEEL == {14, 5, 4, 3, 2}

KeepAll == [i \in Slots |-> TRUE]
KeepNone == [i \in Slots |-> FALSE]

\* mask(keep) / maskFromIdx(idx)
Mask(K) == [i \in Slots |-> i \in K]

SetMax(S) == CHOOSE x \in S : \A y \in S : y <= x
SetMin(S) == CHOOSE x \in S : \A y \in S : x <= y

\* idxs(cards, pred) yields ascending slot lists; slice(0, n) of such a list
FirstN(S, n) == {i \in S : Cardinality({j \in S : j < i}) < n}

\* chooseK / kComb enumerate k-subsets of an ascending list in lexicographic
\* order; the first subset in that order is the one of largest weight when
\* slot 1 is the most significant bit.
LexKey(T) ==
    (IF 1 \in T THEN 16 ELSE 0) + (IF 2 \in T THEN 8 ELSE 0)
  + (IF 3 \in T THEN 4 ELSE 0) + (IF 4 \in T THEN 2 ELSE 0)
  + (IF 5 \in T THEN 1 ELSE 0)
LexFirst(SS) == CHOOSE T \in SS : \A U \in SS : LexKey(U) <= LexKey(T)
KSubsets(S, k) == {T \in SUBSET S : Cardinality(T) = k}
\* k-th element (from 1) of an ascending index list
Nth(S, k) == CHOOSE i \in S : Cardinality({j \in S : j <= i}) = k

\* Dense slots of a hand array: the indices that hold a card.
Present(cards) == {i \in 1 .. Len(cards) : IsCard(cards[i])}
Dense(cards) == \A i \in 1 .. Len(cards) : IsCard(cards[i])
ValsOf(cards, K) == {ValOf(cards[i]) : i \in K}
RankCount(cards, v) == Cardinality({i \in Present(cards) : ValOf(cards[i]) = v})
SuitIdx(cards, s) == {i \in Present(cards) : SuitOf(cards[i]) = s}
RankIdx(cards, v) == {i \in Present(cards) : ValOf(cards[i]) = v}
RanksWith(cards, n) == {v \in 2 .. AceVal : RankCount(cards, v) = n}

\* [...byRank(cards).values()].sort((a,b)=>b-a) : counts[0] and counts[1],
\* 0 standing for undefined (every comparison with 2, 3, 4 fails alike).
Count0(cards) ==
    IF Present(cards) = {} THEN 0
    ELSE SetMax({RankCount(cards, v) : v \in 2 .. AceVal})
Count1(cards) ==
    LET top == CHOOSE v \in 2 .. AceVal : RankCount(cards, v) = Count0(cards)
        rest == {RankCount(cards, v) : v \in (2 .. AceVal) \ {top}}
    IN  IF Count0(cards) = 0 THEN 0 ELSE SetMax(rest)

(***************************************************************************)
(* Jacks or Better 8/5 (games/job.ts)                                      *)
(***************************************************************************)
\* isFlush: cards.every(c => c.suit === cards[0].suit)
isFlush(cards) == \A i \in Present(cards) : SuitOf(cards[i]) = SuitOf(cards[1])

\* isStraight without the wheel
isStraight_NoWheel(vals) ==
    /\ Cardinality(vals) = 5
    /\ SetMax(vals) - SetMin(vals) = 4
\* isStraight(vals): five distinct values spanning 4, or the wheel
isStraight(vals) ==
    /\ Cardinality(vals) = 5
    /\ \/ SetMax(vals) - SetMin(vals) = 4
       \/ vals = WHEEL

\* isRoyal: every rank of 10,J,Q,K,A occurs
isRoyal(cards) == ROYAL_SET \subseteq ValsOf(cards, Present(cards))

evaluateHandJOB(cards) ==
    LET vals == ValsOf(cards, Present(cards))
        flush == isFlush(cards)
        straight == isStraight(vals)
        c0 == Count0(cards)
        c1 == Count1(cards)
    IN  IF flush /\ isRoyal(cards) THEN "Royal Flush"
        ELSE IF flush /\ straight THEN "Straight Flush"
        ELSE IF c0 = 4 THEN "Four of a Kind"
        ELSE IF c0 = 3 /\ c1 = 2 THEN "Full House"
        ELSE IF flush THEN "Flush"
        ELSE IF straight THEN "Straight"
        ELSE IF c0 = 3 THEN "Three of a Kind"
        ELSE IF c0 = 2 /\ c1 = 2 THEN "Two Pair"
        ELSE IF c0 = 2 /\ \E v \in HIGHS : RankCount(cards, v) = 2
             THEN "Jacks or Better"
        ELSE "Nothing"

\* Pattern finders return the set of kept slots, {} standing for null.
\* SUITS = ['♠','♥','♦','♣'] is the order the finders scan suits in.
JobSuitOrder == <<Spades, Hearts, Diamonds, Clubs>>
FirstSuit(order, P(_)) ==
    LET hits == {k \in 1 .. Len(order) : P(order[k])}
    IN  IF hits = {} THEN -1 ELSE order[SetMin(hits)]

RoyalIdx(cards, s) == {i \in SuitIdx(cards, s) : ValOf(cards[i]) \in ROYAL_SET}

\* find4ToRoyal with idx.slice(0, 3)
find4ToRoyal_FirstThree(cards) ==
    LET s == FirstSuit(JobSuitOrder, LAMBDA t : Cardinality(RoyalIdx(cards, t)) >= 4)
    IN  IF s = -1 THEN {} ELSE FirstN(RoyalIdx(cards, s), 3)
find4ToRoyal(cards) ==
    LET s == FirstSuit(JobSuitOrder, LAMBDA t : Cardinality(RoyalIdx(cards, t)) >= 4)
    IN  IF s = -1 THEN {} ELSE FirstN(RoyalIdx(cards, s), 4)

\* the three highest suited royal cards
find3ToRoyal(cards) ==
    LET s == FirstSuit(JobSuitOrder, LAMBDA t : Cardinality(RoyalIdx(cards, t)) >= 3)
        idx == RoyalIdx(cards, s)
    IN  IF s = -1 THEN {}
        ELSE {i \in idx : Cardinality({j \in idx : ValOf(cards[j]) > ValOf(cards[i])}) < 3}

find4ToFlush(cards) ==
    LET s == FirstSuit(JobSuitOrder, LAMBDA t : Cardinality(SuitIdx(cards, t)) = 4)
    IN  IF s = -1 THEN {} ELSE SuitIdx(cards, s)

Window(start) == start .. (start + 4)
FitIdx(cards, list, W) == {i \in list : ValOf(cards[i]) \in W}

\* per suit with >= 4 cards: windows 2..10 in order, then the wheel
SF4InSuit(cards, s) ==
    LET list == SuitIdx(cards, s)
        starts == {st \in 2 .. 10 : Cardinality(FitIdx(cards, list, Window(st))) >= 4}
    IN  IF Cardinality(list) < 4 THEN {}
        ELSE IF starts # {} THEN FirstN(FitIdx(cards, list, Window(SetMin(starts))), 4)
        ELSE IF Cardinality(FitIdx(cards, list, WHEEL)) >= 4
             THEN FirstN(FitIdx(cards, list, WHEEL), 4)
        ELSE {}
find4ToStraightFlush(cards) ==
    LET s == FirstSuit(JobSuitOrder, LAMBDA t : SF4InSuit(cards, t) # {})
    IN  IF s = -1 THEN {} ELSE SF4InSuit(cards, s)

NumHighs(cards, K) == Cardinality({i \in K : ValOf(cards[i]) \in HIGHS})
IsRun4(vals) == Cardinality(vals) = 4 /\ SetMax(vals) - SetMin(vals) = 3
IsGut4(vals) == Cardinality(vals) = 4 /\ SetMax(vals) - SetMin(vals) = 4

find4ToOutsideStraight_withHighs(cards, maxHighs) ==
    LET ok == {T \in KSubsets(Slots, 4) :
                 IsRun4(ValsOf(cards, T)) /\ NumHighs(cards, T) <= maxHighs}
    IN  IF ok = {} THEN {} ELSE LexFirst(ok)

find4ToInsideStraight_withHighs(cards, highsNeeded) ==
    LET ok == {T \in KSubsets(Slots, 4) :
                 IsGut4(ValsOf(cards, T)) /\ NumHighs(cards, T) = highsNeeded}
    IN  IF ok = {} THEN {} ELSE LexFirst(ok)

\* gaps = (max - min) - 2 ; type 1: <= 0, type 2: 1, type 3: >= 2
SF3Type(vals) ==
    LET gaps == (SetMax(vals) - SetMin(vals)) - 2
    IN  IF gaps <= 0 THEN 1 ELSE IF gaps = 1 THEN 2 ELSE 3
SF3InSuit(cards, s, type) ==
    {T \in KSubsets(SuitIdx(cards, s), 3) :
        /\ Cardinality({i \in T : ValOf(cards[i]) \in ROYAL_SET}) # 3
        /\ SF3Type(ValsOf(cards, T)) = type}
find3ToStraightFlush_Type(cards, type) ==
    LET s == FirstSuit(JobSuitOrder, LAMBDA t : SF3InSuit(cards, t, type) # {})
    IN  IF s = -1 THEN {} ELSE LexFirst(SF3InSuit(cards, s, type))

CardAt(cards, v, s) == {i \in Present(cards) : ValOf(cards[i]) = v /\ SuitOf(cards[i]) = s}
findSuitedPair(cards, a, b) ==
    LET s == FirstSuit(JobSuitOrder,
                 LAMBDA t : CardAt(cards, a, t) # {} /\ CardAt(cards, b, t) # {})
    IN  IF s = -1 THEN {}
        ELSE {SetMin(CardAt(cards, a, s)), SetMin(CardAt(cards, b, s))}

\* greedy pick, rank by rank, of the first card whose suit is not yet used
RECURSIVE UnsuitedPick(_, _, _)
UnsuitedPick(cards, ranksNeeded, pick) ==
    IF ranksNeeded = <<>> THEN pick
    ELSE LET free == {i \in RankIdx(cards, Head(ranksNeeded)) :
                        \A j \in pick : SuitOf(cards[j]) # SuitOf(cards[i])}
         IN  IF free = {} THEN {}
             ELSE UnsuitedPick(cards, Tail(ranksNeeded), pick \cup {SetMin(free)})
findUnsuitedSet(cards, ranksNeeded) == UnsuitedPick(cards, ranksNeeded, {})

\* first (ia, ib) in nested ascending scans with different suits
UnsuitedTwo(cards, a, b) ==
    LET ias == {i \in RankIdx(cards, a) :
                  \E j \in RankIdx(cards, b) : SuitOf(cards[i]) # SuitOf(cards[j])}
        ia == SetMin(ias)
    IN  IF ias = {} THEN {}
        ELSE {ia, SetMin({j \in RankIdx(cards, b) : SuitOf(cards[ia]) # SuitOf(cards[j])})}
RECURSIVE FirstUnsuitedTwo(_, _)
FirstUnsuitedTwo(cards, pairs) ==
    IF pairs = <<>> THEN {}
    ELSE IF UnsuitedTwo(cards, Head(pairs)[1], Head(pairs)[2]) # {}
         THEN UnsuitedTwo(cards, Head(pairs)[1], Head(pairs)[2])
    ELSE FirstUnsuitedTwo(cards, Tail(pairs))
findTwoUnsuitedHighs_K_high(cards) == FirstUnsuitedTwo(cards, <<<<13, 12>>, <<13, 11>>>>)
findTwoUnsuitedHighs_A_high(cards) ==
    FirstUnsuitedTwo(cards, <<<<14, 13>>, <<14, 12>>, <<14, 11>>>>)

FirstOfRank(cards, v) == IF RankIdx(cards, v) = {} THEN {} ELSE {SetMin(RankIdx(cards, v))}
\* preference order J > Q > K > A
findSingleHigh(cards) ==
    IF FirstOfRank(cards, 11) # {} THEN FirstOfRank(cards, 11)
    ELSE IF FirstOfRank(cards, 12) # {} THEN FirstOfRank(cards, 12)
    ELSE IF FirstOfRank(cards, 13) # {} THEN FirstOfRank(cards, 13)
    ELSE FirstOfRank(cards, 14)

\* First non-empty pick of a priority list of picks
RECURSIVE FirstPick(_)
FirstPick(picks) ==
    IF picks = <<>> THEN {}
    ELSE IF Head(picks) # {} THEN Head(picks)
    ELSE FirstPick(Tail(picks))

\* Rules 12..35 of the JoB priority list, in order: each entry is the pick
\* of one rule ({} when the rule does not match).
JobLowerRules(cards) ==
    <<  find3ToRoyal(cards),                                         \* 12
        find4ToFlush(cards),                                         \* 13
        IF {10, 11, 12, 13} \subseteq ValsOf(cards, Slots)           \* 14
        THEN findUnsuitedSet(cards, <<10, 11, 12, 13>>) ELSE {},
        IF \E v \in (2 .. 10) : RankCount(cards, v) = 2              \* 15
        THEN RankIdx(cards, CHOOSE v \in 2 .. 10 : RankCount(cards, v) = 2) ELSE {},
        find4ToOutsideStraight_withHighs(cards, 2),                  \* 16
        find3ToStraightFlush_Type(cards, 1),                         \* 17
        findSuitedPair(cards, 12, 11),                               \* 18
        find4ToInsideStraight_withHighs(cards, 4),                   \* 19
        findSuitedPair(cards, 13, 12),                               \* 20
        findSuitedPair(cards, 13, 11),
        findSuitedPair(cards, 14, 13),                               \* 21
        findSuitedPair(cards, 14, 12),
        findSuitedPair(cards, 14, 11),
        find4ToInsideStraight_withHighs(cards, 3),                   \* 22
        find3ToStraightFlush_Type(cards, 2),                         \* 23
        IF {11, 12, 13} \subseteq ValsOf(cards, Slots)               \* 24
        THEN findUnsuitedSet(cards, <<11, 12, 13>>) ELSE {},
        findUnsuitedSet(cards, <<11, 12>>),                          \* 25
        findSuitedPair(cards, 10, 11),                               \* 26
        findTwoUnsuitedHighs_K_high(cards),                          \* 27
        findSuitedPair(cards, 10, 12),                               \* 28
        findTwoUnsuitedHighs_A_high(cards),                          \* 29
        IF RankIdx(cards, 11) # {} THEN findSingleHigh(cards) ELSE {}, \* 30
        findSuitedPair(cards, 10, 13),                               \* 31
        FirstOfRank(cards, 12),                                      \* 32
        FirstOfRank(cards, 13),                                      \* 33
        FirstOfRank(cards, 14),                                      \* 34
        find3ToStraightFlush_Type(cards, 3)  >>                      \* 35

bestHoldMaskJOB(cards) ==
    LET c0 == Count0(cards)
        c1 == Count1(cards)
        flush == isFlush(cards)
        straight == isStraight(ValsOf(cards, Slots))
    IN  IF flush /\ isRoyal(cards) THEN KeepAll                       \* 1
        ELSE IF flush /\ straight THEN KeepAll                        \* 2
        ELSE IF c0 = 4 THEN KeepAll                                   \* 3
        ELSE IF find4ToRoyal(cards) # {} THEN Mask(find4ToRoyal(cards)) \* 4
        ELSE IF c0 = 3 /\ c1 = 2 THEN KeepAll                         \* 5
        ELSE IF flush THEN KeepAll                                    \* 6
        ELSE IF c0 = 3                                                \* 7
             THEN Mask(RankIdx(cards, CHOOSE v \in RanksWith(cards, 3) : TRUE))
        ELSE IF straight THEN KeepAll                                 \* 8
        ELSE IF find4ToStraightFlush(cards) # {}                      \* 9
             THEN Mask(find4ToStraightFlush(cards))
        ELSE IF c0 = 2 /\ c1 = 2                                      \* 10
             THEN Mask({i \in Slots : RankCount(cards, ValOf(cards[i])) = 2})
        ELSE IF \E v \in HIGHS : RankCount(cards, v) = 2              \* 11
             THEN Mask(RankIdx(cards, CHOOSE v \in HIGHS : RankCount(cards, v) = 2))
        ELSE Mask(FirstPick(JobLowerRules(cards)))                    \* 12..36

(***************************************************************************)
(* Deuces Wild 25/16/13 (games/deuces.ts)                                  *)
(***************************************************************************)
DeucesIdx(cards) == RankIdx(cards, 2)
NonDeuces(cards) == Present(cards) \ DeucesIdx(cards)
NonDeuceSuitIdx(cards, s) == SuitIdx(cards, s) \ DeucesIdx(cards)
SumVals(cards, K) ==
    LET RECURSIVE Sum(_)
        Sum(T) == IF T = {} THEN 0
                  ELSE LET i == SetMin(T) IN ValOf(cards[i]) + Sum(T \ {i})
    IN  Sum(K)

\* new Set(hand.map(c => c.suit)) : suits in order of first appearance
SuitsSeen(cards) ==
    LET firsts == {i \in Present(cards) :
                     \A j \in Present(cards) :
                        SuitOf(cards[j]) = SuitOf(cards[i]) => i <= j}
    IN  [k \in 1 .. Cardinality(firsts) |-> SuitOf(cards[Nth(firsts, k)])]
\* result of the first suit, in that order, for which F yields a pick
FirstBySuit(cards, F(_)) ==
    LET s == FirstSuit(SuitsSeen(cards), LAMBDA t : F(t) # {})
    IN  IF s = -1 THEN {} ELSE F(s)

isNaturalRoyal(cards) ==
    /\ Cardinality({SuitOf(cards[i]) : i \in Present(cards)}) = 1
    /\ Len(cards) = HandSize
    /\ ValsOf(cards, Present(cards)) = ROYAL_SET

canMakeStraightWithWilds(vals, wilds) ==
    \E w \in {Window(st) : st \in 2 .. 10} \cup {WHEEL} :
        Cardinality(w \ vals) <= wilds

canMakeRoyalWithWilds(cards, wilds) ==
    \E i \in NonDeuces(cards) :
        Cardinality(ROYAL_SET \ ValsOf(cards, NonDeuceSuitIdx(cards, SuitOf(cards[i]))))
            <= wilds

canMakeStraightFlushWithWilds(cards, wilds) ==
    \E i \in NonDeuces(cards) :
        canMakeStraightWithWilds(
            ValsOf(cards, NonDeuceSuitIdx(cards, SuitOf(cards[i]))), wilds)

\* canMakeFlushWithWilds that counts no deuce towards the flush
canMakeFlushWithWilds_NoWilds(cards, wilds) ==
    \E i \in NonDeuces(cards) :
        Cardinality(NonDeuceSuitIdx(cards, SuitOf(cards[i]))) >= 5
canMakeFlushWithWilds(cards, wilds) ==
    \E i \in NonDeuces(cards) :
        Cardinality(NonDeuceSuitIdx(cards, SuitOf(cards[i]))) + wilds >= 5

Need(n, have) == IF n - have > 0 THEN n - have ELSE 0
\* counts: non-deuce rank -> multiplicity
canMakeFullHouseWithWilds(cards, wilds) ==
    LET ranks == ValsOf(cards, NonDeuces(cards))
    IN  \E a \in ranks :
          /\ Need(3, RankCount(cards, a)) <= wilds
          /\ \E b \in ranks \ {a} :
                Need(2, RankCount(cards, b)) <= wilds - Need(3, RankCount(cards, a))

evaluateHandDW(cards) ==
    LET deuces == Cardinality(DeucesIdx(cards))
        maxSame == SetMax({0} \cup {RankCount(cards, v) : v \in 3 .. AceVal})
        nonVals == ValsOf(cards, NonDeuces(cards))
    IN  IF deuces = 0 /\ isNaturalRoyal(cards) THEN "Natural Royal Flush"
        ELSE IF deuces = 4 THEN "Four Deuces"
        ELSE IF deuces >= 1 /\ canMakeRoyalWithWilds(cards, deuces)
             THEN "Wild Royal Flush"
        ELSE IF maxSame + deuces >= 5 THEN "Five of a Kind"
        ELSE IF canMakeStraightFlushWithWilds(cards, deuces) THEN "Straight Flush"
        ELSE IF maxSame + deuces >= 4 THEN "Four of a Kind"
        ELSE IF canMakeFullHouseWithWilds(cards, deuces) THEN "Full House"
        ELSE IF canMakeFlushWithWilds(cards, deuces) THEN "Flush"
        ELSE IF canMakeStraightWithWilds(nonVals, deuces) THEN "Straight"
        ELSE IF maxSame + deuces >= 3 THEN "Three of a Kind"
        ELSE "Nothing"

\* the n highest / lowest valued cards of a one-suit index list
TopN(cards, idx, n) ==
    {i \in idx : Cardinality({j \in idx : ValOf(cards[j]) > ValOf(cards[i])}) < n}
LowN(cards, idx, n) ==
    {i \in idx : Cardinality({j \in idx : ValOf(cards[j]) < ValOf(cards[i])}) < n}

find4ToNaturalRoyal_NoDeuce(hnd) ==
    FirstBySuit(hnd, LAMBDA s : IF Cardinality(RoyalIdx(hnd, s)) >= 4
                                THEN TopN(hnd, RoyalIdx(hnd, s), 4) ELSE {})
find3ToNaturalRoyal_NoDeuce(hnd) ==
    FirstBySuit(hnd, LAMBDA s : IF Cardinality(RoyalIdx(hnd, s)) >= 3
                                THEN FirstN(RoyalIdx(hnd, s), 3) ELSE {})
find2ToRoyal_JQHigh_NoTen_NoDeuce(hnd) ==
    FirstBySuit(hnd, LAMBDA s :
        LET idx == {i \in SuitIdx(hnd, s) : ValOf(hnd[i]) \in HIGHS}
        IN  IF Cardinality(idx) >= 2 THEN LowN(hnd, idx, 2) ELSE {})

\* first k-combination (kComb order) of idx whose sorted values are
\* consecutive and start at minLow or above
ConsecCombo(hnd, idx, k, minLow) ==
    LET ok == {T \in KSubsets(idx, k) :
                 /\ Cardinality(ValsOf(hnd, T)) = k
                 /\ SetMax(ValsOf(hnd, T)) - SetMin(ValsOf(hnd, T)) = k - 1
                 /\ SetMin(ValsOf(hnd, T)) >= minLow}
    IN  IF ok = {} THEN {} ELSE LexFirst(ok)

find4ToSF_NoWild(hnd) ==
    FirstBySuit(hnd, LAMBDA s : ConsecCombo(hnd, NonDeuceSuitIdx(hnd, s), 4, 0))
findAny3ToSF_Consecutive(hnd) ==
    FirstBySuit(hnd, LAMBDA s : ConsecCombo(hnd, NonDeuceSuitIdx(hnd, s), 3, 0))
find4ToFlush_NoWild(hnd) ==
    FirstBySuit(hnd, LAMBDA s : IF Cardinality(NonDeuceSuitIdx(hnd, s)) = 4
                                THEN NonDeuceSuitIdx(hnd, s) ELSE {})
find4ToOutsideStraight_NoWild(hnd) ==
    LET ok == {T \in KSubsets(Slots, 4) : IsRun4(ValsOf(hnd, T))}
    IN  IF ok = {} THEN {} ELSE LexFirst(ok)
find2SuitedConsecMin(hnd, suit, minLow) ==
    ConsecCombo(hnd, NonDeuceSuitIdx(hnd, suit), 2, minLow)
find3SuitedConsecMin(hnd, suit, minLow) ==
    ConsecCombo(hnd, NonDeuceSuitIdx(hnd, suit), 3, minLow)

\* every 4-card pick with four distinct values spanning 5 ranks (one rank
\* missing inside); the low card is at least 3, so the gap is never the 2
findAll4ToInside_NoWild_NotMissingDeuce(hnd) ==
    {T \in KSubsets(Slots, 4) : IsGut4(ValsOf(hnd, T))}
\* stable sort by highs, then by sum: ties keep the kComb order
pickPrimaryInside(hnd, cands) ==
    LET Better(a, b) ==
            \/ NumHighs(hnd, a) > NumHighs(hnd, b)
            \/ /\ NumHighs(hnd, a) = NumHighs(hnd, b)
               /\ SumVals(hnd, a) > SumVals(hnd, b)
        top == {T \in cands : \A U \in cands : ~Better(U, T)}
    IN  LexFirst(top)

\* three suited royals + the deuce: one pick per suit
findAll4ToWRF_With1Deuce_3Royals(hnd, deuceIdx) ==
    {FirstN(RoyalIdx(hnd, SuitOf(hnd[i])), 3) \cup {deuceIdx} :
        i \in {j \in NonDeuces(hnd) :
                 Cardinality(RoyalIdx(hnd, SuitOf(hnd[j]))) >= 3}}
pickPrimaryWRF3Royals(hnd, cands) ==
    CHOOSE T \in cands : \A U \in cands : SumVals(hnd, U) <= SumVals(hnd, T)

\* find4ToWRF_With2Deuces keeping one deuce only
find4ToWRF_With2Deuces_OneDeuce(hnd, deucesIdx) ==
    LET n(s) == Cardinality(RoyalIdx(hnd, s))
        s == FirstSuit(SuitsSeen(hnd),
                 LAMBDA t : n(t) >= 2 /\ \A u \in 0 .. 3 : n(u) <= n(t))
    IN  IF s = -1 THEN {}
        ELSE LowN(hnd, RoyalIdx(hnd, s), 2) \cup FirstN(deucesIdx, 1)
\* the suit with the most royals (at least two): its two lowest + two deuces
find4ToWRF_With2Deuces(hnd, deucesIdx) ==
    LET n(s) == Cardinality(RoyalIdx(hnd, s))
        s == FirstSuit(SuitsSeen(hnd),
                 LAMBDA t : n(t) >= 2 /\ \A u \in 0 .. 3 : n(u) <= n(t))
    IN  IF s = -1 THEN {}
        ELSE LowN(hnd, RoyalIdx(hnd, s), 2) \cup FirstN(deucesIdx, 2)

\* Object.keys(counts)[0] among the ranks in R: integer-like keys ('3'..'10')
\* come first in ascending order, then 'J','Q','K','A' in insertion order
FirstKey(hnd, R) ==
    IF \E v \in R : v <= 10 THEN SetMin({v \in R : v <= 10})
    ELSE CHOOSE v \in R : \A w \in R :
             SetMin(RankIdx(hnd, v)) <= SetMin(RankIdx(hnd, w))

PatMonsters == {"Wild Royal Flush", "Five of a Kind", "Straight Flush"}
Advice(pick) == [mask |-> Mask(pick), alts |-> {}]

\* the two-deuce rules holding a made Four of a Kind pat
bestHoldDW_2Deuces_PatQuads(hnd, evalRank) ==
    LET deucesIdx == DeucesIdx(hnd)
        wr4 == find4ToWRF_With2Deuces(hnd, deucesIdx)
        pair == FirstBySuit(hnd, LAMBDA s : find2SuitedConsecMin(hnd, s, 6))
    IN  IF evalRank \in PatMonsters THEN Advice(Slots)
        ELSE IF evalRank = "Four of a Kind"
             THEN Advice(Slots)
        ELSE IF wr4 # {} THEN Advice(wr4)
        ELSE IF pair # {} THEN Advice(pair \cup deucesIdx)
        ELSE Advice(deucesIdx)
\* wilds = 2
bestHoldDW_2Deuces(hnd, evalRank) ==
    LET deucesIdx == DeucesIdx(hnd)
        wr4 == find4ToWRF_With2Deuces(hnd, deucesIdx)
        pair == FirstBySuit(hnd, LAMBDA s : find2SuitedConsecMin(hnd, s, 6))
    IN  IF evalRank \in PatMonsters THEN Advice(Slots)
        ELSE IF evalRank = "Four of a Kind"
             THEN Advice(deucesIdx \cup
                         RankIdx(hnd, FirstKey(hnd, RanksWith(hnd, 2) \ {2})))
        ELSE IF wr4 # {} THEN Advice(wr4)
        ELSE IF pair # {} THEN Advice(pair \cup deucesIdx)
        ELSE Advice(deucesIdx)

\* wilds = 1
bestHoldDW_1Deuce(hnd, evalRank) ==
    LET d == SetMin(DeucesIdx(hnd))
        nrf4 == find4ToNaturalRoyal_NoDeuce(hnd)
        picks == findAll4ToWRF_With1Deuce_3Royals(hnd, d)
        primary == pickPrimaryWRF3Royals(hnd, picks)
        pairRanks == RanksWith(hnd, 2)
        first == FirstKey(hnd, pairRanks)
        sf3hi == FirstBySuit(hnd, LAMBDA s : find3SuitedConsecMin(hnd, s, 5))
        any3sf == findAny3ToSF_Consecutive(hnd)
        roy2 == FirstBySuit(hnd, LAMBDA s :
                    IF Cardinality(RoyalIdx(hnd, s)) >= 2
                    THEN FirstN(RoyalIdx(hnd, s), 2) ELSE {})
        tight2 == FirstBySuit(hnd, LAMBDA s : find2SuitedConsecMin(hnd, s, 6))
    IN  IF evalRank \in PatMonsters THEN Advice(Slots)
        ELSE IF evalRank = "Four of a Kind" /\ RanksWith(hnd, 3) # {}
             THEN Advice(RankIdx(hnd, FirstKey(hnd, RanksWith(hnd, 3))) \cup {d})
        ELSE IF nrf4 # {} THEN Advice(nrf4)
        ELSE IF picks # {}
             THEN [mask |-> Mask(primary),
                   alts |-> {Mask(T) : T \in picks \ {primary}}]
        ELSE IF evalRank = "Full House"
             THEN IF Cardinality(pairRanks) = 2
                  THEN [mask |-> KeepAll,
                        alts |-> {Mask(RankIdx(hnd, r) \cup {d}) : r \in pairRanks}]
                  ELSE Advice(Slots)
        ELSE IF sf3hi # {} THEN Advice(sf3hi \cup {d})
        ELSE IF evalRank \in {"Straight", "Flush"} THEN Advice(Slots)
        ELSE IF pairRanks # {}
             THEN [mask |-> Mask(RankIdx(hnd, first) \cup {d}),
                   alts |-> {Mask(RankIdx(hnd, r) \cup {d}) :
                                r \in pairRanks \ {first}}]
        ELSE IF any3sf # {} THEN Advice(any3sf \cup {d})
        ELSE IF roy2 # {} THEN Advice(roy2 \cup {d})
        ELSE IF tight2 # {} THEN Advice(tight2 \cup {d})
        ELSE Advice({d})

\* wilds = 0
bestHoldDW_NoDeuce(hnd, evalRank) ==
    LET nrf4 == find4ToNaturalRoyal_NoDeuce(hnd)
        pairRanks == RanksWith(hnd, 2)
        sf4 == find4ToSF_NoWild(hnd)
        nrf3 == find3ToNaturalRoyal_NoDeuce(hnd)
        fl4 == find4ToFlush_NoWild(hnd)
        st4 == find4ToOutsideStraight_NoWild(hnd)
        sf3 == findAny3ToSF_Consecutive(hnd)
        allInside == findAll4ToInside_NoWild_NotMissingDeuce(hnd)
        inside == pickPrimaryInside(hnd, allInside)
        r2 == find2ToRoyal_JQHigh_NoTen_NoDeuce(hnd)
    IN  IF nrf4 # {} THEN Advice(nrf4)
        ELSE IF isNaturalRoyal(hnd) THEN Advice(Slots)
        ELSE IF evalRank \in {"Straight", "Flush", "Full House",
                              "Four of a Kind", "Straight Flush"}
             THEN Advice(Slots)
        ELSE IF evalRank = "Three of a Kind"
             THEN Advice(RankIdx(hnd, FirstKey(hnd, RanksWith(hnd, 3))))
        ELSE IF Cardinality(pairRanks) >= 2
             THEN [mask |-> Mask(RankIdx(hnd, SetMax(pairRanks))),
                   alts |-> {Mask(RankIdx(hnd, SetMin(pairRanks)))}]
        ELSE IF Cardinality(pairRanks) = 1
             THEN Advice(RankIdx(hnd, FirstKey(hnd, pairRanks)))
        ELSE IF sf4 # {} THEN Advice(sf4)
        ELSE IF nrf3 # {} THEN Advice(nrf3)
        ELSE IF fl4 # {} THEN Advice(fl4)
        ELSE IF st4 # {} THEN Advice(st4)
        ELSE IF sf3 # {} THEN Advice(sf3)
        ELSE IF allInside # {}
             THEN [mask |-> Mask(inside),
                   alts |-> {Mask(T) : T \in allInside \ {inside}}]
        ELSE IF r2 # {} THEN Advice(r2)
        ELSE Advice({})

bestHoldDW_25_16_13(hnd) ==
    LET wilds == Cardinality(DeucesIdx(hnd))
        evalRank == evaluateHandDW(hnd)
    IN  IF wilds = 4 THEN Advice(DeucesIdx(hnd))
        ELSE IF wilds = 3
             THEN IF evalRank \in PatMonsters THEN Advice(Slots)
                  ELSE Advice(DeucesIdx(hnd))
        ELSE IF wilds = 2 THEN bestHoldDW_2Deuces(hnd, evalRank)
        ELSE IF wilds = 1 THEN bestHoldDW_1Deuce(hnd, evalRank)
        ELSE bestHoldDW_NoDeuce(hnd, evalRank)

(***************************************************************************)
(* Double Double Bonus 9/6 (games/ddb.ts)                                  *)
(***************************************************************************)
SEQ_OUTSIDE_22 ==
    << {2,3,4,5}, {3,4,5,6}, {4,5,6,7}, {5,6,7,8}, {6,7,8,9}, {7,8,9,10} >>
SEQ_IN_20 == << {8,9,10,11}, {9,10,11,12}, {10,11,12,13} >>
SEQ_IN_24 == << {11,12,13,14} >>
SEQ_IN_26 == << {9,11,12,13}, {10,11,12,14}, {10,11,13,14}, {10,12,13,14} >>
SEQ_IN_29 == << {8,9,11,12}, {8,10,11,12}, {9,10,11,13}, {9,10,12,13} >>
SEQ_MISC_38 ==
    << {2,3,4,6}, {2,3,5,6}, {2,4,5,6}, {3,4,5,7}, {3,4,6,7}, {3,5,6,7},
       {4,5,6,8}, {4,5,7,8}, {4,6,7,8}, {5,6,7,9}, {5,6,8,9}, {5,7,8,9},
       {6,7,8,10}, {6,7,9,10}, {6,8,9,10}, {6,7,9,10} >>
SF3_BLOCK_23 ==
    << {3,4,5}, {4,5,6}, {5,6,7}, {6,7,8}, {7,8,9}, {8,9,10},
       {8,9,11}, {8,10,11}, {8,11,12}, {9,10,11}, {9,10,12}, {9,11,12},
       {9,11,13}, {9,12,13} >>
SF3_BLOCK_27 ==
    << {14,2,3}, {2,3,4}, {2,3,5}, {2,4,5}, {3,4,6}, {3,5,6}, {4,5,7},
       {4,6,7}, {5,6,8}, {5,7,8}, {6,7,9}, {6,8,9}, {7,8,10}, {7,8,11},
       {7,9,11}, {7,9,10}, {7,10,11}, {8,9,12}, {8,10,12}, {9,10,13} >>
SF3_BLOCK_37 ==
    << {2,3,6}, {2,4,6}, {2,5,6}, {3,4,7}, {3,5,7}, {3,6,7}, {4,5,8},
       {4,6,8}, {4,7,8}, {5,6,9}, {5,7,9}, {5,8,9}, {6,7,10}, {6,8,10},
       {6,9,10} >>
THREE_TO_RF_ORDERED ==
    << {11,12,13}, {10,11,12}, {10,11,13}, {10,12,13}, {10,11,14},
       {10,12,14}, {10,13,14}, {11,12,14}, {11,13,14}, {12,13,14} >>
LabelJQK == {11, 12, 13}
LabelTJQ == {10, 11, 12}

\* evaluateHandDDB that leaves the ace out of the kickers of four 2s, 3s, 4s
evaluateHandDDB_NoAceKicker(cards) ==
    LET vals == ValsOf(cards, Present(cards))
        flush == isFlush(cards)
        straight == isStraight(vals)
        c0 == Count0(cards)
        \* byFreq[0]: most frequent rank, the higher rank on a tie
        quadRank == SetMax({v \in 2 .. AceVal : RankCount(cards, v) = c0})
        others == {i \in Present(cards) : ValOf(cards[i]) # quadRank}
        kicker == ValOf(cards[SetMin(others)])
    IN  IF flush /\ isRoyal(cards) THEN "Royal Flush"
        ELSE IF flush /\ straight THEN "Straight Flush"
        ELSE IF c0 = 0 THEN THROW
        ELSE IF c0 = 4
             THEN IF others = {} THEN THROW
                  ELSE IF quadRank = 14
                       THEN IF kicker \in {2, 3, 4} THEN "Four Aces w/2,3,4"
                            ELSE "Four Aces"
                  ELSE IF quadRank \in {2, 3, 4}
                       THEN IF kicker \in {2, 3, 4}
                            THEN "Four 2s,3s,4s w/A,2,3,4"
                            ELSE "Four 2s,3s,4s"
                  ELSE "Four 5s thru Ks"
        ELSE IF c0 = 3
             THEN IF others = {} THEN THROW
                  ELSE IF Count1(cards) = 2 THEN "Full House"
                  ELSE "Three of a Kind"
        ELSE IF flush THEN "Flush"
        ELSE IF straight THEN "Straight"
        ELSE IF c0 = 2 /\ Cardinality(RanksWith(cards, 2)) = 2 THEN "Two Pair"
        ELSE IF c0 = 2 /\ RanksWith(cards, 2) \subseteq HIGHS
             THEN "Jacks or Better"
        ELSE "Nothing"
evaluateHandDDB(cards) ==
    LET vals == ValsOf(cards, Present(cards))
        flush == isFlush(cards)
        straight == isStraight(vals)
        c0 == Count0(cards)
        \* byFreq[0]: most frequent rank, the higher rank on a tie
        quadRank == SetMax({v \in 2 .. AceVal : RankCount(cards, v) = c0})
        others == {i \in Present(cards) : ValOf(cards[i]) # quadRank}
        kicker == ValOf(cards[SetMin(others)])
    IN  IF flush /\ isRoyal(cards) THEN "Royal Flush"
        ELSE IF flush /\ straight THEN "Straight Flush"
        ELSE IF c0 = 0 THEN THROW
        ELSE IF c0 = 4
             THEN IF others = {} THEN THROW
                  ELSE IF quadRank = 14
                       THEN IF kicker \in {2, 3, 4} THEN "Four Aces w/2,3,4"
                            ELSE "Four Aces"
                  ELSE IF quadRank \in {2, 3, 4}
                       THEN IF kicker \in {14, 2, 3, 4}
                            THEN "Four 2s,3s,4s w/A,2,3,4"
                            ELSE "Four 2s,3s,4s"
                  ELSE "Four 5s thru Ks"
        ELSE IF c0 = 3
             THEN IF others = {} THEN THROW
                  ELSE IF Count1(cards) = 2 THEN "Full House"
                  ELSE "Three of a Kind"
        ELSE IF flush THEN "Flush"
        ELSE IF straight THEN "Straight"
        ELSE IF c0 = 2 /\ Cardinality(RanksWith(cards, 2)) = 2 THEN "Two Pair"
        ELSE IF c0 = 2 /\ RanksWith(cards, 2) \subseteq HIGHS
             THEN "Jacks or Better"
        ELSE "Nothing"

find4ToRoyalDDB(hnd) ==
    FirstBySuit(hnd, LAMBDA s : IF Cardinality(RoyalIdx(hnd, s)) >= 4
                                THEN FirstN(RoyalIdx(hnd, s), 4) ELSE {})
\* the suited cards carrying the three ranks of one pattern
Royal3Pick(hnd, pattern) ==
    FirstBySuit(hnd, LAMBDA s :
        IF pattern \subseteq ValsOf(hnd, RoyalIdx(hnd, s))
        THEN {i \in RoyalIdx(hnd, s) : ValOf(hnd[i]) \in pattern} ELSE {})
find3ToRoyalOrdered(hnd) ==
    LET hits == {k \in 1 .. Len(THREE_TO_RF_ORDERED) :
                   Royal3Pick(hnd, THREE_TO_RF_ORDERED[k]) # {}}
        first == THREE_TO_RF_ORDERED[SetMin(hits)]
    IN  IF hits = {} THEN [pick |-> {}, label |-> {}]
        ELSE [pick |-> Royal3Pick(hnd, first), label |-> first]
find4ToStraightFlushDDB(hnd) ==
    FirstBySuit(hnd, LAMBDA s : ConsecCombo(hnd, SuitIdx(hnd, s), 4, 0))
any4ToFlush(hnd) ==
    FirstBySuit(hnd, LAMBDA s : IF Cardinality(SuitIdx(hnd, s)) = 4
                                THEN SuitIdx(hnd, s) ELSE {})
\* first set of the table whose ranks all occur among idx: the first card
\* of each of its ranks
GreedyPick(hnd, idx, sets) ==
    LET hits == {k \in 1 .. Len(sets) : sets[k] \subseteq ValsOf(hnd, idx)}
    IN  IF hits = {} THEN {}
        ELSE {SetMin({i \in idx : ValOf(hnd[i]) = v}) : v \in sets[SetMin(hits)]}
find4ToStraightFromSets(hnd, sets) == GreedyPick(hnd, Slots, sets)
find3ToStraightFlushFromSets(hnd, sets) ==
    FirstBySuit(hnd, LAMBDA s : GreedyPick(hnd, SuitIdx(hnd, s), sets))
suitedPair(hnd, a, b) ==
    FirstBySuit(hnd, LAMBDA s :
        IF CardAt(hnd, a, s) # {} /\ CardAt(hnd, b, s) # {}
        THEN {SetMin(CardAt(hnd, a, s)), SetMin(CardAt(hnd, b, s))} ELSE {})
keepPairOnly(hnd, r) == FirstN(RankIdx(hnd, r), 2)
PairOf(hnd, r) == IF RankCount(hnd, r) = 2 THEN keepPairOnly(hnd, r) ELSE {}

\* rule 31: first J with the first Q of another suit
UnsuitedJQ(hnd) ==
    LET qs == {i \in RankIdx(hnd, 12) :
                 SuitOf(hnd[i]) # SuitOf(hnd[SetMin(RankIdx(hnd, 11))])}
    IN  IF RankIdx(hnd, 11) = {} \/ qs = {} THEN {}
        ELSE {SetMin(RankIdx(hnd, 11)), SetMin(qs)}
\* rule 33: first J (else first Q) with the first K when their suits differ
UnsuitedWithK(hnd, r) ==
    IF /\ RankIdx(hnd, r) # {} /\ RankIdx(hnd, 13) # {}
       /\ SuitOf(hnd[SetMin(RankIdx(hnd, r))]) #
          SuitOf(hnd[SetMin(RankIdx(hnd, 13))])
    THEN {SetMin(RankIdx(hnd, r)), SetMin(RankIdx(hnd, 13))} ELSE {}
\* rule 34: suited 10 and K with the first suited card of 2..8
Flush3TK(hnd) ==
    FirstBySuit(hnd, LAMBDA s :
        LET lows == {i \in SuitIdx(hnd, s) : ValOf(hnd[i]) \in 2 .. 8}
        IN  IF CardAt(hnd, 10, s) # {} /\ CardAt(hnd, 13, s) # {} /\ lows # {}
            THEN {SetMin(CardAt(hnd, 10, s)), SetMin(CardAt(hnd, 13, s)),
                  SetMin(lows)}
            ELSE {})

\* the pat list without its last entry
PatDDB_NoStraight ==
    {"Royal Flush", "Straight Flush", "Four Aces w/2,3,4",
     "Four 2s,3s,4s w/A,2,3,4", "Four Aces", "Four 2s,3s,4s",
     "Four 5s thru Ks", "Full House", "Flush"}
PatDDB ==
    {"Royal Flush", "Straight Flush", "Four Aces w/2,3,4",
     "Four 2s,3s,4s w/A,2,3,4", "Four Aces", "Four 2s,3s,4s",
     "Four 5s thru Ks", "Full House", "Flush", "Straight"}

\* Rules 5..38 of the DDB list in order: each entry is the pick of one
\* rule ({} when the rule does not match).
DdbRules(hnd) ==
    LET r3 == find3ToRoyalOrdered(hnd)
        lowPairs == RanksWith(hnd, 2) \cap (2 .. 10)
    IN  <<  find4ToRoyalDDB(hnd),                                     \* 5
            IF RanksWith(hnd, 3) # {}                                 \* 6, 10
            THEN RankIdx(hnd, FirstKey(hnd, RanksWith(hnd, 3))) ELSE {},
            find4ToStraightFlushDDB(hnd),                             \* 11
            PairOf(hnd, 14),                                          \* 12
            IF Cardinality(RanksWith(hnd, 2)) = 2                     \* 13
            THEN {i \in Slots : RankCount(hnd, ValOf(hnd[i])) = 2} ELSE {},
            IF r3.label = LabelJQK THEN r3.pick ELSE {},              \* 14
            PairOf(hnd, 13),                                          \* 15
            IF r3.label = LabelTJQ THEN r3.pick ELSE {},              \* 16
            PairOf(hnd, 12),                                          \* 17
            PairOf(hnd, 11),
            any4ToFlush(hnd),                                         \* 18
            r3.pick,                                                  \* 19
            find4ToStraightFromSets(hnd, SEQ_IN_20),                  \* 20
            IF lowPairs # {} THEN PairOf(hnd, SetMax(lowPairs)) ELSE {}, \* 21
            find4ToStraightFromSets(hnd, SEQ_OUTSIDE_22),             \* 22
            find3ToStraightFlushFromSets(hnd, SF3_BLOCK_23),          \* 23
            find4ToStraightFromSets(hnd, SEQ_IN_24),                  \* 24
            suitedPair(hnd, 11, 12),                                  \* 25
            suitedPair(hnd, 11, 13),
            suitedPair(hnd, 12, 13),
            suitedPair(hnd, 11, 14),
            suitedPair(hnd, 12, 14),
            suitedPair(hnd, 13, 14),
            find4ToStraightFromSets(hnd, SEQ_IN_26),                  \* 26
            find3ToStraightFlushFromSets(hnd, SF3_BLOCK_27),          \* 27
            IF {11, 12, 13} \subseteq ValsOf(hnd, Slots)              \* 28
            THEN {i \in Slots : ValOf(hnd[i]) \in {11, 12, 13}} ELSE {},
            find4ToStraightFromSets(hnd, SEQ_IN_29),                  \* 29
            FirstOfRank(hnd, 14),                                     \* 30
            UnsuitedJQ(hnd),                                          \* 31
            suitedPair(hnd, 10, 11),                                  \* 32
            UnsuitedWithK(hnd, 11),                                   \* 33
            UnsuitedWithK(hnd, 12),
            Flush3TK(hnd),                                            \* 34
            suitedPair(hnd, 10, 12),                                  \* 35
            suitedPair(hnd, 10, 13),
            FirstOfRank(hnd, 13),                                     \* 36
            FirstOfRank(hnd, 12),
            FirstOfRank(hnd, 11),
            find3ToStraightFlushFromSets(hnd, SF3_BLOCK_37),          \* 37
            find4ToStraightFromSets(hnd, SEQ_MISC_38)  >>             \* 38

bestHoldDDB_9_6(hnd) ==
    IF evaluateHandDDB(hnd) \in PatDDB THEN KeepAll                  \* 1-4, 7-9
    ELSE Mask(FirstPick(DdbRules(hnd)))                              \* 5..39

(***************************************************************************)
(* Game spec registry (GameSpec objects picked by App from `screen`)       *)
(***************************************************************************)
IdJOB == "job_8_5"
IdDW == "DW_25_16_13"
IdDDB == "DDB_9_6"
SpecIds == {IdJOB, IdDW, IdDDB}

\* paytable[rank] : <<>> stands for a missing row
PAYTABLE_8_5(rank) ==
    CASE rank = "Royal Flush"         -> <<250, 500, 750, 1000, 4000>>
      [] rank = "Straight Flush"      -> <<50, 100, 150, 200, 250>>
      [] rank = "Four of a Kind"      -> <<25, 50, 75, 100, 125>>
      [] rank = "Full House"          -> <<8, 16, 24, 32, 40>>
      [] rank = "Flush"               -> <<5, 10, 15, 20, 25>>
      [] rank = "Straight"            -> <<4, 8, 12, 16, 20>>
      [] rank = "Three of a Kind"     -> <<3, 6, 9, 12, 15>>
      [] rank = "Two Pair"            -> <<2, 4, 6, 8, 10>>
      [] rank = "Jacks or Better"     -> <<1, 2, 3, 4, 5>>
      [] rank = "Natural Royal Flush" -> <<250, 500, 750, 1000, 4000>>
      [] rank = "Wild Royal Flush"    -> <<0, 0, 0, 0, 0>>
      [] rank = "Five of a Kind"      -> <<0, 0, 0, 0, 0>>
      [] rank = "Four Deuces"         -> <<0, 0, 0, 0, 0>>
      [] OTHER                        -> <<>>

DW_PAYTABLE(rank) ==
    CASE rank = "Natural Royal Flush" -> <<250, 500, 750, 1000, 4000>>
      [] rank = "Four Deuces"         -> <<200, 400, 600, 800, 1000>>
      [] rank = "Wild Royal Flush"    -> <<25, 50, 75, 100, 125>>
      [] rank = "Five of a Kind"      -> <<16, 32, 48, 64, 80>>
      [] rank = "Straight Flush"      -> <<13, 26, 39, 52, 65>>
      [] rank = "Four of a Kind"      -> <<4, 8, 12, 16, 20>>
      [] rank = "Full House"          -> <<3, 6, 9, 12, 15>>
      [] rank = "Flush"               -> <<2, 4, 6, 8, 10>>
      [] rank = "Straight"            -> <<2, 4, 6, 8, 10>>
      [] rank = "Three of a Kind"     -> <<1, 2, 3, 4, 5>>
      [] rank = "Royal Flush"         -> <<0, 0, 0, 0, 0>>
      [] rank = "Two Pair"            -> <<0, 0, 0, 0, 0>>
      [] rank = "Jacks or Better"     -> <<0, 0, 0, 0, 0>>
      [] OTHER                        -> <<>>

DDB_PAYTABLE(rank) ==
    CASE rank = "Royal Flush"             -> <<250, 500, 750, 1000, 4000>>
      [] rank = "Straight Flush"          -> <<50, 100, 150, 200, 250>>
      [] rank = "Four Aces w/2,3,4"       -> <<400, 800, 1200, 1600, 2000>>
      [] rank = "Four 2s,3s,4s w/A,2,3,4" -> <<160, 320, 480, 640, 800>>
      [] rank = "Four Aces"               -> <<160, 320, 480, 640, 800>>
      [] rank = "Four 2s,3s,4s"           -> <<80, 160, 240, 320, 400>>
      [] rank = "Four 5s thru Ks"         -> <<50, 100, 150, 200, 250>>
      [] rank = "Full House"              -> <<9, 18, 27, 36, 45>>
      [] rank = "Flush"                   -> <<6, 12, 18, 24, 30>>
      [] rank = "Straight"                -> <<4, 8, 12, 16, 20>>
      [] rank = "Three of a Kind"         -> <<3, 6, 9, 12, 15>>
      [] rank = "Two Pair"                -> <<1, 2, 3, 4, 5>>
      [] rank = "Jacks or Better"         -> <<1, 2, 3, 4, 5>>
      [] rank = "Natural Royal Flush"     -> <<0, 0, 0, 0, 0>>
      [] rank = "Wild Royal Flush"        -> <<0, 0, 0, 0, 0>>
      [] rank = "Five of a Kind"          -> <<0, 0, 0, 0, 0>>
      [] rank = "Four Deuces"             -> <<0, 0, 0, 0, 0>>
      [] OTHER                            -> <<>>

paytable(id, rank) ==
    IF id = IdJOB THEN PAYTABLE_8_5(rank)
    ELSE IF id = IdDW THEN DW_PAYTABLE(rank)
    ELSE DDB_PAYTABLE(rank)

\* spec.evaluateHand on whatever array the hook passes.  An undefined entry
\* is dereferenced by the first cards.map / cards.filter callback.  A hole
\* is skipped by map / filter / every but reached by cards[0] and by
\* for..of; a sparse hand always has its hole at index 0, so JoB and DDB
\* throw in isFlush and DW throws in its first for..of unless it has
\* already returned on four deuces.
evaluateHand(id, cards) ==
    IF \E i \in 1 .. Len(cards) : cards[i] = Undef THEN THROW
    ELSE IF \E i \in 1 .. Len(cards) : cards[i] = Hole
         THEN IF id = IdDW /\ Cardinality(DeucesIdx(cards)) = 4
              THEN "Four Deuces" ELSE THROW
    ELSE IF id = IdJOB THEN evaluateHandJOB(cards)
    ELSE IF id = IdDW THEN evaluateHandDW(cards)
    ELSE evaluateHandDDB(cards)

\* spec.bestHold normalised to { mask, alts } (a bare mask has no alts)
bestHold(id, cards) ==
    IF id = IdJOB THEN [mask |-> bestHoldMaskJOB(cards), alts |-> {}]
    ELSE IF id = IdDW THEN bestHoldDW_25_16_13(cards)
    ELSE [mask |-> bestHoldDDB_9_6(cards), alts |-> {}]

MinBet == 1
MaxBet == 5
\* the clamp that takes the top bet level back to the lowest
Clamp_Wraps(b) == IF b >= MaxBet THEN MinBet ELSE IF b < MinBet THEN MinBet ELSE b
Clamp(b) == IF b > MaxBet THEN MaxBet ELSE IF b < MinBet THEN MinBet ELSE b

\* payoutFromSpec that always reads the one-coin column
payoutFromSpec_FirstColumn(id, rank, b) ==
    LET row == paytable(id, rank)
    IN  IF row = <<>> THEN 0 ELSE row[1]

\* payoutFromSpec that pays one coin for an outcome without a row
payoutFromSpec_MissingPaysOne(id, rank, b) ==
    LET row == paytable(id, rank)
    IN  IF row = <<>> THEN 1 ELSE row[Clamp(b)]

payoutFromSpec(id, rank, b) ==
    LET row == paytable(id, rank)
    IN  IF row = <<>> THEN 0 ELSE row[Clamp(b)]

maskEquals(a, b) == \A i \in Slots : a[i] = b[i]

(***************************************************************************)
(* Deck (cards.ts)                                                         *)
(***************************************************************************)
\* deck.push order of newDeck: suits outer, ranks inner
BaseDeck == [i \in 1 .. NumCards |-> i - 1]

\* Math.random() of the i-th Fisher-Yates step, as floor(random * (i + 1)),
\* for the random stream `seed`
RandomIndex(seed, i) == ((seed * 7919 + i * 7907 + i * i * 13) % 9973) % (i + 1)

Swap(a, i, j) == [a EXCEPT ![i] = a[j], ![j] = a[i]]

\* shuffle: for (i = n-1; i > 0; i--) swap a[i], a[j]   (0-based i, j)
RECURSIVE ShuffleFrom(_, _, _)
ShuffleFrom(a, i, seed) ==
    IF i <= 0 THEN a
    ELSE ShuffleFrom(Swap(a, i + 1, RandomIndex(seed, i) + 1), i - 1, seed)
shuffle(a, seed) == ShuffleFrom(a, Len(a) - 1, seed)

newDeck(seed) == shuffle(BaseDeck, seed)

(***************************************************************************)
(* useGame(spec): hook state                                               *)
(***************************************************************************)
VARIABLES
    specId,             \* spec.id of the GameSpec passed to useGame
    credits, bet, deck, hand, holds, phase,
    isAnimating,
    result,             \* {rank, payout} ; rank "null" stands for null
    initialRank,
    promptedThisRound,
    suggestion,         \* a mask ; <<>> stands for null
    hintsEnabled,
    accCorrect, accTotal,
    bank,               \* localStorage bank_balance
    accStore,           \* localStorage acc_correct:<id>, acc_total:<id>
    hintsStore,         \* localStorage hintsOn:<id>
    task,               \* the suspended async deal / animateDrawWithMask
    call,               \* last hook operation invoked and how it ended
    round,              \* what draw() saw at its first submission of the round
    calls               \* handler calls made so far

vars == <<specId, credits, bet, deck, hand, holds, phase, isAnimating, result,
          initialRank, promptedThisRound, suggestion, hintsEnabled,
          accCorrect, accTotal, bank, accStore, hintsStore, task, call, round,
          calls>>

Null == "null"
NoResult == [rank |-> Null, payout |-> 0]
NoSuggestion == <<>>
NoTask == [kind |-> "none", finalHand |-> <<>>, toReplace |-> {}, k |-> 0,
           d |-> <<>>, bet |-> 0, spec |-> Null]
\* what the round's calls saw: the counters at the deal, the first mask
\* given to draw() and whether the advisor accepts it, and the hand, deck
\* and mask the last started draw worked from
NoRound == [dealt |-> FALSE, submitted |-> FALSE, optimal |-> FALSE,
            total0 |-> 0, correct0 |-> 0, spec |-> Null,
            hand0 |-> <<>>, deck0 |-> <<>>, mask0 |-> <<>>, final0 |-> <<>>,
            drawsBegun |-> 0, left0 |-> 0]

\* the hook state as one value, so that handlers are functions of it
St == [specId |-> specId, credits |-> credits, bet |-> bet, deck |-> deck,
       hand |-> hand, holds |-> holds, phase |-> phase,
       isAnimating |-> isAnimating, result |-> result,
       initialRank |-> initialRank,
       promptedThisRound |-> promptedThisRound, suggestion |-> suggestion,
       hintsEnabled |-> hintsEnabled, accCorrect |-> accCorrect,
       accTotal |-> accTotal, bank |-> bank, accStore |-> accStore,
       hintsStore |-> hintsStore, task |-> task, call |-> call,
       round |-> round]

Commit(n) ==
    /\ specId' = n.specId /\ credits' = n.credits /\ bet' = n.bet
    /\ deck' = n.deck /\ hand' = n.hand /\ holds' = n.holds
    /\ phase' = n.phase /\ isAnimating' = n.isAnimating
    /\ result' = n.result /\ initialRank' = n.initialRank
    /\ promptedThisRound' = n.promptedThisRound
    /\ suggestion' = n.suggestion /\ hintsEnabled' = n.hintsEnabled
    /\ accCorrect' = n.accCorrect /\ accTotal' = n.accTotal
    /\ bank' = n.bank /\ accStore' = n.accStore
    /\ hintsStore' = n.hintsStore /\ task' = n.task /\ call' = n.call
    /\ round' = n.round

\* canDeal that asks for some credits, not for the bet
canDeal_SomeCredits(s) == s.phase \in {"bet", "show"} /\ s.credits > 0
\* canDeal without the credits test
canDeal_IgnoresCredits(s) == s.phase \in {"bet", "show"}
canDeal(s) == s.phase \in {"bet", "show"} /\ s.credits >= s.bet
\* canDraw without the phase test
canDraw_AnyPhase(s) == Len(s.hand) = HandSize
canDraw(s) == s.phase \in {"deal", "draw"} /\ Len(s.hand) = HandSize

Called(s, op, how) == [s EXCEPT !.call = [op |-> op, how |-> how]]

(***************************************************************************)
(* Effects that run after a render                                         *)
(***************************************************************************)
\* useEffect [credits, phase]: show backs when credits hit zero
OutOfCash(s, n) ==
    IF /\ (n.credits # s.credits \/ n.phase # s.phase)
       /\ n.credits = 0
       /\ n.phase \in {"bet", "show"}
    THEN [n EXCEPT !.hand = <<>>, !.holds = KeepNone, !.result = NoResult,
                   !.initialRank = Null]
    ELSE n

\* useEffect [ACC_*_KEY, acc*] and [HINTS_KEY, hintsEnabled]: persist
Persist(n) ==
    [n EXCEPT !.accStore[n.specId] = <<n.accCorrect, n.accTotal>>,
              !.hintsStore[n.specId] = n.hintsEnabled]

Effects(s, n) == Persist(OutOfCash(s, n))

(***************************************************************************)
(* Handlers                                                                *)
(***************************************************************************)
\* toggleHold that also moves the round on to phase draw
toggleHold_EntersDraw(s, i) ==
    IF s.isAnimating THEN Called(s, "toggleHold", "noop")
    ELSE IF s.phase # "deal" /\ s.phase # "draw"
         THEN Called(s, "toggleHold", "noop")
    ELSE Called([s EXCEPT !.holds[i] = ~s.holds[i], !.phase = "draw"],
                "toggleHold", "ok")

toggleHold(s, i) ==
    IF s.isAnimating THEN Called(s, "toggleHold", "noop")
    ELSE IF s.phase # "deal" /\ s.phase # "draw"
         THEN Called(s, "toggleHold", "noop")
    ELSE Called([s EXCEPT !.holds[i] = ~s.holds[i]], "toggleHold", "ok")

changeBet(s, delta) ==
    IF ~s.isAnimating
    THEN Called([s EXCEPT !.bet = Clamp(s.bet + delta)], "changeBet", "ok")
    ELSE Called(s, "changeBet", "noop")

setMaxBet(s) ==
    IF ~s.isAnimating
    THEN Called([s EXCEPT !.bet = MaxBet], "setMaxBet", "ok")
    ELSE Called(s, "setMaxBet", "noop")

\* insert() that credits the amount asked for, not what the bank holds
insert_CreditsAmount(s, amount) ==
    LET m == IF amount < s.bank THEN amount ELSE s.bank
    IN  IF amount <= 0 THEN Called(s, "insert", "noop")
        ELSE IF m <= 0 THEN Called(s, "insert", "noop")
        ELSE Called([s EXCEPT !.bank = s.bank - m,
                              !.credits = s.credits + amount], "insert", "ok")
insert(s, amount) ==
    LET m == IF amount < s.bank THEN amount ELSE s.bank
    IN  IF amount <= 0 THEN Called(s, "insert", "noop")
        ELSE IF m <= 0 THEN Called(s, "insert", "noop")
        ELSE Called([s EXCEPT !.bank = s.bank - m,
                              !.credits = s.credits + m], "insert", "ok")

cashOutAll(s) ==
    IF s.credits <= 0 THEN Called(s, "cashOutAll", "noop")
    ELSE Called([s EXCEPT !.bank = s.bank + s.credits,
                          !.credits = 0,
                          !.hand = <<>>,
                          !.holds = KeepNone,
                          !.phase = "bet",
                          !.result = NoResult,
                          !.initialRank = Null], "cashOutAll", "ok")

setHintsEnabled(s, v) ==
    Called([s EXCEPT !.hintsEnabled = v], "setHintsEnabled", "ok")

\* the deck a deal draws from: a fresh one when fewer than 10 cards are left
ReshuffleBelow == 10
\* Restock that waits until the deck cannot fill a hand
Restock_WhenShortOfAHand(d, seed) ==
    IF Len(d) < HandSize THEN newDeck(seed) ELSE d
Restock(d, seed) == IF Len(d) < ReshuffleBelow THEN newDeck(seed) ELSE d

\* deal() that forgets d = d.slice(5)
deal_KeepsDealtCards(s, seed) ==
    IF ~canDeal(s) \/ s.isAnimating THEN Called(s, "deal", "noop")
    ELSE
      LET d == Restock(s.deck, seed)
          drawn == SubSeq(d, 1, HandSize)
      IN  Called([s EXCEPT
                    !.credits = s.credits - s.bet,
                    !.deck = d,
                    !.hand = drawn,
                    !.holds = KeepNone,
                    !.phase = "deal",
                    !.result = NoResult,
                    !.promptedThisRound = FALSE,
                    !.suggestion = NoSuggestion,
                    !.initialRank = Null,
                    !.isAnimating = TRUE,
                    !.task = [NoTask EXCEPT !.kind = "deal",
                                            !.finalHand = drawn,
                                            !.spec = s.specId],
                    !.round = [NoRound EXCEPT !.dealt = TRUE,
                                              !.total0 = s.accTotal,
                                              !.correct0 = s.accCorrect,
                                              !.spec = s.specId,
                                              !.left0 = Len(s.deck)]],
                 "deal", "ok")

\* deal() up to its first await
deal(s, seed) ==
    IF ~canDeal(s) \/ s.isAnimating THEN Called(s, "deal", "noop")
    ELSE
      LET d == Restock(s.deck, seed)
          drawn == SubSeq(d, 1, HandSize)
      IN  Called([s EXCEPT
                    !.credits = s.credits - s.bet,
                    !.deck = SubSeq(d, HandSize + 1, Len(d)),
                    !.hand = drawn,
                    !.holds = KeepNone,
                    !.phase = "deal",
                    !.result = NoResult,
                    !.promptedThisRound = FALSE,
                    !.suggestion = NoSuggestion,
                    !.initialRank = Null,
                    !.isAnimating = TRUE,
                    !.task = [NoTask EXCEPT !.kind = "deal",
                                            !.finalHand = drawn,
                                            !.spec = s.specId],
                    !.round = [NoRound EXCEPT !.dealt = TRUE,
                                              !.total0 = s.accTotal,
                                              !.correct0 = s.accCorrect,
                                              !.spec = s.specId,
                                              !.left0 = Len(s.deck)]],
                 "deal", "ok")

\* deal() after its last await: initial rank, animation over
dealResume(s) ==
    LET r == evaluateHand(s.task.spec, s.task.finalHand)
    IN  IF r = THROW
        THEN Called([s EXCEPT !.task = NoTask], "dealResume", "throw")
        ELSE Called([s EXCEPT
                       !.initialRank = IF r # Nothing THEN r ELSE Null,
                       !.isAnimating = FALSE,
                       !.task = NoTask], "dealResume", "ok")

\* setHand(h => { next = h.slice(); next[i] = v }) : writing past the end
\* of the array leaves holes
SetAt(h, i, v) ==
    [j \in 1 .. (IF i > Len(h) THEN i ELSE Len(h)) |->
        IF j = i THEN v ELSE IF j <= Len(h) THEN h[j] ELSE Hole]

\* d.shift() : undefined once the deck is empty
Shifted(d, n) == IF n <= Len(d) THEN d[n] ELSE Undef
DropHead(d, n) == IF n >= Len(d) THEN <<>> ELSE SubSeq(d, n + 1, Len(d))

\* indices hand.map visits (holes are skipped) whose card is not kept
ToReplace(h, keepMask) ==
    {i \in 1 .. Len(h) : h[i] # Hole /\ ~keepMask[i]}

FinalHand(h, d, keepMask) ==
    LET rep == ToReplace(h, keepMask)
    IN  [i \in 1 .. Len(h) |->
            IF i \in rep
            THEN Shifted(d, Cardinality({j \in rep : j <= i}))
            ELSE h[i]]

\* evaluate, pay and show: the tail of animateDrawWithMask
Score(s, finalHand, id, b, op) ==
    LET rank == evaluateHand(id, finalHand)
        payout == payoutFromSpec(id, rank, b)
    IN  IF rank = THROW THEN Called(s, op, "throw")
        ELSE Called([s EXCEPT !.credits = s.credits + payout,
                              !.result = [rank |-> rank, payout |-> payout],
                              !.phase = "show",
                              !.initialRank = Null,
                              !.suggestion = NoSuggestion], op, "scored")

\* one pass of the replacement loop: place card k; the last pass commits
\* the deck and scores
Replace(s, t, op) ==
    LET i == Nth(t.toReplace, t.k)
        placed == [s EXCEPT !.hand = SetAt(s.hand, i, t.finalHand[i])]
    IN  IF t.k < Cardinality(t.toReplace)
        THEN Called([placed EXCEPT !.isAnimating = TRUE,
                                   !.task = [t EXCEPT !.k = t.k + 1]],
                    op, "animating")
        ELSE Score([placed EXCEPT !.isAnimating = FALSE,
                                  !.deck = t.d,
                                  !.task = NoTask],
                   t.finalHand, t.spec, t.bet, op)

animateDrawWithMask(s, keepMask, op) ==
    LET rep == ToReplace(s.hand, keepMask)
        finalHand == FinalHand(s.hand, s.deck, keepMask)
        t == [kind |-> "draw", finalHand |-> finalHand, toReplace |-> rep,
              k |-> 1, d |-> DropHead(s.deck, Cardinality(rep)),
              bet |-> s.bet, spec |-> s.specId]
        begun == [s EXCEPT !.round.hand0 = s.hand, !.round.deck0 = s.deck,
                           !.round.mask0 = keepMask,
                           !.round.final0 = finalHand,
                           !.round.drawsBegun = s.round.drawsBegun + 1]
    IN  IF s.isAnimating THEN Called(s, op, "noop")
        ELSE IF rep = {} THEN Score(begun, finalHand, s.specId, s.bet, op)
        ELSE Replace(begun, t, op)

\* animateDrawWithMask after an await
drawResume(s) == Replace(s, s.task, "drawResume")

\* draw() past its guard, with best = spec.bestHold(hand)
Submit(s, best) ==
    LET isOptimal == \E m \in {best.mask} \cup best.alts : maskEquals(m, s.holds)
        seen == IF s.round.submitted THEN s.round
                ELSE [s.round EXCEPT !.submitted = TRUE, !.optimal = isOptimal]
        r == [s EXCEPT !.round = seen]
    IN  IF s.hintsEnabled /\ ~s.promptedThisRound /\ ~isOptimal
        THEN Called([r EXCEPT !.suggestion = best.mask,
                              !.promptedThisRound = TRUE], "draw", "prompt")
        ELSE IF s.hintsEnabled /\ ~s.promptedThisRound /\ isOptimal
        THEN animateDrawWithMask([r EXCEPT !.accTotal = s.accTotal + 1,
                                           !.accCorrect = s.accCorrect + 1],
                                 s.holds, "draw")
        ELSE IF s.hintsEnabled
        THEN animateDrawWithMask([r EXCEPT !.accTotal = s.accTotal + 1],
                                 s.holds, "draw")
        ELSE animateDrawWithMask(
                 [r EXCEPT !.accTotal = s.accTotal + 1,
                           !.accCorrect = IF isOptimal THEN s.accCorrect + 1
                                          ELSE s.accCorrect],
                 s.holds, "draw")

draw(s) ==
    IF ~canDraw(s) \/ s.isAnimating THEN Called(s, "draw", "noop")
    ELSE Submit(s, bestHold(s.specId, s.hand))

acceptSuggestionAndDraw(s) ==
    IF s.suggestion = NoSuggestion \/ s.isAnimating
    THEN Called(s, "acceptSuggestionAndDraw", "noop")
    ELSE animateDrawWithMask([s EXCEPT !.holds = s.suggestion,
                                       !.accTotal = s.accTotal + 1],
                             s.suggestion, "acceptSuggestionAndDraw")

\* keepMineAndDraw() without its isAnimating test
keepMineAndDraw_Unguarded(s) ==
    animateDrawWithMask([s EXCEPT !.accTotal = s.accTotal + 1],
                        s.holds, "keepMineAndDraw")
keepMineAndDraw(s) ==
    IF s.isAnimating THEN Called(s, "keepMineAndDraw", "noop")
    ELSE animateDrawWithMask([s EXCEPT !.accTotal = s.accTotal + 1],
                             s.holds, "keepMineAndDraw")

(***************************************************************************)
(* App: which spec the hook is mounted with (App.tsx)                      *)
(***************************************************************************)
\* canLeaveTable: the back-to-menu control is live only between rounds
canLeaveTable(s) ==
    ~s.isAnimating /\ (s.phase \in {"bet", "show"} \/ Len(s.hand) = 0)

\* A render with a new spec.id.  The rehydrate effect reads the new id's
\* stored values; the persist effects of the same commit still hold the old
\* table's values and write them under the new keys; the render caused by
\* the rehydrated values persists those again.
\* the render with a new spec.id without the re-read of the counters
Rehydrate_KeepsCounters(s, to) ==
    [s EXCEPT !.specId = to,
              !.hintsEnabled = s.hintsStore[to],
              !.promptedThisRound = FALSE,
              !.suggestion = NoSuggestion,
              !.hand = <<>>,
              !.holds = KeepNone,
              !.phase = "bet",
              !.initialRank = Null,
              !.result = NoResult,
              !.round = NoRound]

Rehydrate(s, to) ==
    [s EXCEPT !.specId = to,
              !.accCorrect = s.accStore[to][1],
              !.accTotal = s.accStore[to][2],
              !.hintsEnabled = s.hintsStore[to],
              !.promptedThisRound = FALSE,
              !.suggestion = NoSuggestion,
              !.hand = <<>>,
              !.holds = KeepNone,
              !.phase = "bet",
              !.initialRank = Null,
              !.result = NoResult,
              !.round = NoRound]

switchGame(s, to) ==
    LET stale == Persist([s EXCEPT !.specId = to])
        fresh == Rehydrate(s, to)
    IN  Called(Persist([fresh EXCEPT !.accStore = stale.accStore,
                                     !.hintsStore = stale.hintsStore]),
               "switchGame", "ok")

(***************************************************************************)
(* Bounds                                                                  *)
(***************************************************************************)
NumSeeds == 1
MaxCalls == 4
StartCredits == 2
StartBank == 1

\* the Math.random streams a shuffle may see
SeedTable == <<3, 2>>
Seeds == {SeedTable[k] : k \in 1 .. NumSeeds}
\* the slots the player toggles
ToggleSlots == {1, 4}
InsertAmounts == {1, 5}
\* betOne: one coin up, and from 5 back to 1
BetDeltas == {1, -4}
\* deck sizes the table can be left with when a round starts: a fresh deck,
\* and the two sides of the reshuffle threshold
StartDeckSizes == {52, 10, 9}

Suffix(d, n) == SubSeq(d, Len(d) - n + 1, Len(d))

Init ==
    /\ specId \in SpecIds
    /\ credits = StartCredits
    /\ bet = 1
    /\ \E seed \in Seeds : \E n \in StartDeckSizes :
           deck = Suffix(newDeck(seed), n)
    /\ hand = <<>>
    /\ holds = KeepNone
    /\ phase = "bet"
    /\ isAnimating = FALSE
    /\ result = NoResult
    /\ initialRank = Null
    /\ promptedThisRound = FALSE
    /\ suggestion = NoSuggestion
    /\ hintsEnabled = TRUE
    /\ accCorrect = 0
    /\ accTotal = 0
    /\ bank = StartBank
    /\ accStore = [id \in SpecIds |-> <<0, 0>>]
    /\ hintsStore = [id \in SpecIds |-> TRUE]
    /\ task = NoTask
    /\ call = [op |-> "mount", how |-> "ok"]
    /\ round = NoRound
    /\ calls = 0

\* a handler invoked from the UI, and the continuation of a suspended one
Step(n) == calls < MaxCalls /\ Commit(Effects(St, n)) /\ calls' = calls + 1
Resume(n) == Commit(Effects(St, n)) /\ calls' = calls

Deal == \E seed \in Seeds : Step(deal(St, seed))
DealResume == task.kind = "deal" /\ Resume(dealResume(St))
Draw == Step(draw(St))
AcceptSuggestionAndDraw == Step(acceptSuggestionAndDraw(St))
KeepMineAndDraw == Step(keepMineAndDraw(St))
DrawResume == task.kind = "draw" /\ Resume(drawResume(St))
ToggleHold == \E i \in ToggleSlots : Step(toggleHold(St, i))
ChangeBet == \E delta \in BetDeltas : Step(changeBet(St, delta))
SetMaxBet == Step(setMaxBet(St))
Insert == \E amount \in InsertAmounts : Step(insert(St, amount))
CashOutAll == Step(cashOutAll(St))
SetHintsEnabled == Step(setHintsEnabled(St, ~hintsEnabled))
SwitchGame ==
    /\ canLeaveTable(St)
    /\ \E to \in SpecIds \ {specId} :
          /\ (specId = IdJOB \/ to = IdJOB)
          /\ Step(switchGame(St, to))

Next ==
    \/ Deal \/ DealResume
    \/ Draw \/ AcceptSuggestionAndDraw \/ KeepMineAndDraw \/ DrawResume
    \/ ToggleHold \/ ChangeBet \/ SetMaxBet
    \/ Insert \/ CashOutAll
    \/ SetHintsEnabled
    \/ SwitchGame

Spec == Init /\ [][Next]_vars

(***************************************************************************)
(* Properties of the round state machine                                   *)
(***************************************************************************)
\* the step is a call of deal()
DealCalled == calls' = calls + 1 /\ call'.op = "deal"
\* the step is a call of deal() that passes its guard
DealAccepted == DealCalled /\ phase \in {"bet", "show"} /\ credits >= bet
                /\ ~isAnimating

\* C1: deal() called with credits < bet, or in a phase other than bet and
\* show, is a no-op: phase, credits, hand, deck, hold mask, bet and last
\* result are after the call what they were before it.
C1_DealRefused ==
    [][(DealCalled /\ (credits < bet \/ phase \notin {"bet", "show"}))
         => UNCHANGED <<phase, credits, hand, deck, holds, bet, result>>]_vars

\* deal() was just called with fewer credits than the bet
C1_Witness ==
    /\ call = [op |-> "deal", how |-> "noop"]
    /\ credits < bet
    /\ phase \in {"bet", "show"}
    /\ ~isAnimating

\* C2: a deal() accepted from phase bet or show with credits >= bet takes
\* exactly bet from credits, makes the hand the first 5 cards of the deck
\* (the old one or a fresh one) and removes them from it, resets the hold
\* mask, clears the last result and leaves phase = deal.
C2_DealEffect ==
    [][DealAccepted =>
         /\ credits' = credits - bet
         /\ \E d \in {deck} \cup {newDeck(seed) : seed \in Seeds} :
               /\ Len(d) >= HandSize
               /\ hand' = SubSeq(d, 1, HandSize)
               /\ deck' = SubSeq(d, HandSize + 1, Len(d))
         /\ holds' = KeepNone
         /\ result' = NoResult
         /\ phase' = "deal"]_vars

\* a deal was just accepted and five cards are on the table
C2_Witness ==
    /\ call = [op |-> "deal", how |-> "ok"]
    /\ phase = "deal"
    /\ Len(hand) = HandSize
    /\ holds = KeepNone

\* the calls that run animateDrawWithMask, and its continuation
DrawOps == {"draw", "acceptSuggestionAndDraw", "keepMineAndDraw", "drawResume"}
\* a draw has just run to its end
DrawEnded == call.op \in DrawOps /\ call.how \in {"scored", "throw"}
Unheld(m) == {i \in Slots : ~m[i]}

\* C3: a draw with hold mask m on a 5-card hand keeps every held card in
\* its slot, fills the unheld slots left to right with the first k cards of
\* the deck (k = number of unheld slots, and the deck has that many), and
\* leaves the deck without exactly those k cards.
C3_DrawReplaces ==
    (/\ DrawEnded
     /\ credits > 0
     /\ Len(round.hand0) = HandSize
     /\ \A i \in Slots : IsCard(round.hand0[i]))
    => LET U == Unheld(round.mask0)
           k == Cardinality(U)
       IN  /\ Len(hand) = HandSize
           /\ \A i \in Slots \ U : hand[i] = round.hand0[i]
           /\ k <= Len(round.deck0)
           /\ \A i \in U :
                 hand[i] = round.deck0[Cardinality({j \in U : j <= i})]
           /\ deck = SubSeq(round.deck0, k + 1, Len(round.deck0))

\* the step ends a draw by scoring it
DrawCompletes == call'.op \in DrawOps /\ call'.how = "scored"
\* the paytable cell of an outcome at a bet, 0 for an outcome without a row
PaytableAmount(id, rank, b) ==
    IF paytable(id, rank) = <<>> THEN 0 ELSE paytable(id, rank)[b]
\* the outcome of the hand a draw has built
DrawnRank == evaluateHand(specId, round'.final0)
\* the out-of-cash reset follows the step
ResetFollows == credits' = 0 /\ (credits' # credits \/ phase # "show")

\* C4 as stated: when a draw completes, credits grow by exactly the paytable
\* amount of the final hand's outcome at the bet, lastResult is that outcome
\* and payout, phase becomes show, and nothing else is credited or debited.
C4_DrawPays ==
    [][DrawCompletes =>
         \A rank \in {DrawnRank} :
         \A payout \in {PaytableAmount(specId, rank, bet)} :
             /\ credits' = credits + payout
             /\ result' = [rank |-> rank, payout |-> payout]
             /\ phase' = "show"
             /\ bank' = bank]_vars

\* C4 amended: as C4, except that when the draw leaves credits at 0 the
\* out-of-cash reset clears lastResult (with the hand and the hold mask) in
\* the same update.
C4_DrawPaysOrResets ==
    [][DrawCompletes =>
         \A rank \in {DrawnRank} :
         \A payout \in {PaytableAmount(specId, rank, bet)} :
             /\ credits' = credits + payout
             /\ IF ResetFollows
                THEN result' = NoResult /\ hand' = <<>> /\ holds' = KeepNone
                ELSE result' = [rank |-> rank, payout |-> payout]
             /\ phase' = "show"
             /\ bank' = bank]_vars

\* a draw has just been scored and paid
C4_Witness ==
    /\ call.op \in DrawOps /\ call.how = "scored"
    /\ phase = "show"
    /\ result.rank # Null /\ result.payout > 0

Cycle == {<<"bet", "deal">>, <<"deal", "draw">>, <<"draw", "show">>,
          <<"show", "bet">>}

\* C5 as stated: every phase change made by an operation of the round state
\* machine is one step of the cycle bet -> deal -> draw -> show -> bet.
C5_PhaseCycle ==
    [][(phase' # phase /\ call'.op # "switchGame")
         => <<phase, phase'>> \in Cycle]_vars

\* C5 amended: the phase changes only by deal() from bet or show to deal,
\* by a draw that is scored to show, and by cashOutAll or a change of table
\* to bet; the phase draw is never entered.
C5_PhaseMoves ==
    [][phase' # phase =>
         \/ call'.op = "deal" /\ phase \in {"bet", "show"} /\ phase' = "deal"
         \/ call'.op \in DrawOps /\ call'.how = "scored" /\ phase' = "show"
         \/ call'.op \in {"cashOutAll", "switchGame"} /\ phase' = "bet"]_vars

\* a round has gone from deal to show and has been cashed out
C5_Witness ==
    /\ call = [op |-> "cashOutAll", how |-> "ok"]
    /\ phase = "bet"
    /\ round.dealt /\ round.drawsBegun = 1

\* C6: draw() and toggleHold(slot) called in phase bet or show change none
\* of hand, deck, hold mask, credits, accuracy counters, suggestion, phase.
C6_WrongPhaseNoOp ==
    [][(/\ calls' = calls + 1
        /\ call'.op \in {"draw", "toggleHold"}
        /\ phase \in {"bet", "show"})
         => UNCHANGED <<hand, deck, holds, credits, accCorrect, accTotal,
                        suggestion, phase>>]_vars

\* draw() was just called on a shown five-card hand
C6_Witness ==
    /\ call = [op |-> "draw", how |-> "noop"]
    /\ phase = "show"
    /\ Len(hand) = HandSize

\* C7: when a round whose mask was submitted by draw() reaches show, it has
\* been recorded exactly once, as correct (total +1, correct +1) if and only
\* if the submitted mask equals the advisor's primary mask or one of its
\* alternates for the dealt hand, and otherwise as attempted-incorrect
\* (total +1, correct +0).
C7_AccuracyScored ==
    (/\ call.op \in DrawOps /\ call.how = "scored"
     /\ round.dealt /\ round.submitted)
    => /\ accTotal = round.total0 + 1
       /\ accCorrect = round.correct0 + (IF round.optimal THEN 1 ELSE 0)

IsSuffix(d2, d) ==
    Len(d2) <= Len(d) /\ d2 = SubSeq(d, Len(d) - Len(d2) + 1, Len(d))

\* C9: the reshuffle check is made at each accepted deal and only there.
\* With fewer than 10 cards left the hand is dealt from a fresh deck of the
\* 52 distinct cards and 47 remain; with 10 or more the existing deck is
\* used and shrinks by exactly 5; no other step replaces or refills the
\* deck.
C9_Reshuffle ==
    [][IF DealAccepted
       THEN IF Len(deck) < 10
            THEN /\ Len(hand') = 5 /\ Len(deck') = 47
                 /\ {(hand' \o deck')[i] : i \in 1 .. 52} = 0 .. 51
            ELSE /\ hand' = SubSeq(deck, 1, 5)
                 /\ deck' = SubSeq(deck, 6, Len(deck))
       ELSE IsSuffix(deck', deck)]_vars

\* a hand was just dealt from a deck replaced at the deal
C9_Witness ==
    /\ call = [op |-> "deal", how |-> "ok"]
    /\ round.left0 < 10
    /\ Len(deck) = 47

\* C10: in every reachable state the hand is empty or is exactly 5 cards
\* with a card in every slot, and the hold mask has exactly 5 entries.
C10_HandShape ==
    /\ hand = <<>> \/ (Len(hand) = HandSize /\ \A i \in Slots : IsCard(hand[i]))
    /\ Len(holds) = HandSize

(***************************************************************************)
(* One transition at a time                                                *)
(***************************************************************************)
\* a deal or a draw has started and its delays have not finished
InFlight == task.kind # "none"
RoundOps == {"deal", "draw", "acceptSuggestionAndDraw", "keepMineAndDraw"}

\* C11: while a deal or draw is in flight, a call of deal, draw,
\* acceptSuggestionAndDraw or keepMineAndDraw changes nothing: no debit, no
\* card replaced, no accuracy update, no payout, and the transition in
\* flight is left as it was.
C11_OneTransition ==
    [][(InFlight /\ calls' = calls + 1 /\ call'.op \in RoundOps)
         => UNCHANGED <<specId, credits, bet, deck, hand, holds, phase,
                        isAnimating, result, initialRank, promptedThisRound,
                        suggestion, hintsEnabled, accCorrect, accTotal, bank,
                        accStore, hintsStore, task, round>>]_vars

\* keepMineAndDraw() was just called while a draw was replacing cards
C11_Witness ==
    /\ task.kind = "draw"
    /\ call = [op |-> "keepMineAndDraw", how |-> "noop"]
    /\ isAnimating

(***************************************************************************)
(* Money                                                                   *)
(***************************************************************************)
MoneyOps == {"insert", "cashOutAll"}
Least(a, b) == IF a < b THEN a ELSE b

\* C12: insert(amount) moves exactly min(amount, bank) from the bank to
\* credits, nothing when that is <= 0; cashOutAll() moves all credits to
\* the bank and leaves credits 0; bank + credits is after each of these
\* calls what it was before.
C12_MoneyConserved ==
    [][(calls' = calls + 1 /\ call'.op \in MoneyOps) =>
         /\ bank' + credits' = bank + credits
         /\ call'.op = "insert" =>
               \E amount \in InsertAmounts :
                  IF Least(amount, bank) <= 0
                  THEN UNCHANGED <<bank, credits>>
                  ELSE /\ credits' = credits + Least(amount, bank)
                       /\ bank' = bank - Least(amount, bank)
         /\ call'.op = "cashOutAll" =>
               /\ credits' = 0
               /\ bank' = bank + credits]_vars

\* insert() has just moved less than the bank held onto a table that had
\* been cashed out before
C12_Witness ==
    /\ call = [op |-> "insert", how |-> "ok"]
    /\ bank > StartBank
    /\ credits > 0

(***************************************************************************)
(* Hands the classifiers and advisors are applied to                       *)
(***************************************************************************)
NumSuitings == 2
NumDeuceOrders == 2
NumKickerSuits == 1

Values == 2 .. AceVal
Suits == {Clubs, Diamonds, Hearts, Spades}
\* the card of a value and a suit, in newDeck's numbering
CardOf(v, s) == s * NumRanks + (AceVal - v)

\* every multiset of five values that five distinct cards can carry, as a
\* non-decreasing tuple
RankTuples ==
    {t \in UNION {UNION {UNION {UNION {
          {<<a, b, c, d, e>> : e \in d .. AceVal}
             : d \in c .. AceVal} : c \in b .. AceVal}
             : b \in a .. AceVal} : a \in Values} : t[1] # t[5]}

\* suiting 1 gives the n-th card of a value the n-th suit, so five different
\* values make a flush; suiting 2 moves the highest card one suit on;
\* suiting k > 2 is suiting 1 moved k - 2 suits on
SuitFor(t, i, k) ==
    LET occ == Cardinality({j \in 1 .. (i - 1) : t[j] = t[i]})
        shift == IF k = 1 THEN 0
                 ELSE IF k = 2 THEN (IF i = HandSize THEN 1 ELSE 0)
                 ELSE k - 2
    IN  (occ + shift) % 4
HandOf(t, k) == [i \in Slots |-> CardOf(t[i], SuitFor(t, i, k))]
Distinct(h) == Cardinality({h[i] : i \in 1 .. Len(h)}) = Len(h)
\* the tuples whose suits can matter to a flush: no value twice but the deuce
FlushShaped(t) == \A i, j \in Slots : (i # j /\ t[i] = t[j]) => t[i] = 2
PatternHands ==
    {h \in {HandOf(t, 1) : t \in RankTuples}
            \cup {HandOf(t, k) : t \in {u \in RankTuples : FlushShaped(u)},
                                 k \in 2 .. NumSuitings} :
        Distinct(h)}

\* the four deuces in rising or falling suit order (and rotations of these
\* for more orders), with any fifth card in any slot
DeuceOrder(n) ==
    [i \in 1 .. 4 |->
        CardOf(2, IF n % 2 = 1 THEN (i - 1 + n \div 2) % 4
                  ELSE (4 - i + n \div 2) % 4)]
InsertAt(q, p, c) ==
    [i \in 1 .. (Len(q) + 1) |->
        IF i < p THEN q[i] ELSE IF i = p THEN c ELSE q[i - 1]]
FourDeuceHands ==
    {InsertAt(DeuceOrder(n), p, c) :
        n \in 1 .. NumDeuceOrders, p \in Slots,
        c \in {x \in Cards : ValOf(x) # 2}}

\* two deuces, a natural pair and a kicker, the kicker and the deuces in
\* every slot, the kicker in the suit of a pair card or of a deuce
TwoDeuceQuadHands ==
    {InsertAt(InsertAt(InsertAt(<<CardOf(pr, Clubs), CardOf(pr, Hearts)>>,
                                d1, CardOf(2, Diamonds)),
                       d2, CardOf(2, Spades)),
              kp, CardOf(kr, ks)) :
        pr \in Values \ {2}, kr \in Values \ {2},
        d1 \in {1, 3}, d2 \in {2, 4}, kp \in Slots,
        ks \in 0 .. (NumKickerSuits - 1)}

\* four of the five royal values in one suit, rising, with any other card
\* of the deck in any slot
RoyalSuits == {Clubs, Spades}
RoyalFour(miss) == [i \in 1 .. 4 |-> IF 9 + i < miss THEN 9 + i ELSE 10 + i]
RoyalDrawHands ==
    {InsertAt([i \in 1 .. 4 |-> CardOf(RoyalFour(miss)[i], s)], p, c) :
        miss \in ROYAL_SET, s \in RoyalSuits, p \in Slots, c \in Cards}

\* the hands a table of game id is given: the deuce hands go to the
\* wild-deuce table, the royal draws to the standard table
TestHands(id) ==
    {h \in PatternHands
            \cup (IF id = IdDW THEN FourDeuceHands \cup TwoDeuceQuadHands
                  ELSE IF id = IdJOB THEN RoyalDrawHands
                  ELSE {}) :
        Distinct(h)}

(***************************************************************************)
(* The first evaluator (evaluate.ts) and payoutForRank (paytable.ts)        *)
(***************************************************************************)
\* checkStraight(ranks) on the ranks sorted by RANK_ORDER.indexOf, which is
\* the card value less 2
checkStraight(ranks) ==
    IF ranks = <<2, 3, 4, 5, 14>> THEN TRUE
    ELSE \A i \in 1 .. (Len(ranks) - 1) :
            (ranks[i + 1] - 2) - (ranks[i] - 2) = 1
\* hand.map(c => c.rank).sort(by rankValue)
SortedRanks(cards) ==
    LET n == Len(cards)
        pos(i) == 1 + Cardinality({j \in 1 .. n :
                        \/ ValOf(cards[j]) < ValOf(cards[i])
                        \/ ValOf(cards[j]) = ValOf(cards[i]) /\ j < i})
    IN  [k \in 1 .. n |-> ValOf(cards[CHOOSE i \in 1 .. n : pos(i) = k])]
evaluateHandV1(cards) ==
    LET n == Len(cards)
        ranks == SortedRanks(cards)
        flush == \A i \in 1 .. n : SuitOf(cards[i]) = SuitOf(cards[1])
        straight == checkStraight(ranks)
        hasOfAKind(k) == \E v \in 2 .. AceVal : RankCount(cards, v) = k
    IN  IF flush /\ straight /\ ranks = <<10, 11, 12, 13, 14>>
        THEN "Royal Flush"
        ELSE IF flush /\ straight THEN "Straight Flush"
        ELSE IF hasOfAKind(4) THEN "Four of a Kind"
        ELSE IF hasOfAKind(3) /\ hasOfAKind(2) THEN "Full House"
        ELSE IF flush THEN "Flush"
        ELSE IF straight THEN "Straight"
        ELSE IF hasOfAKind(3) THEN "Three of a Kind"
        ELSE IF Cardinality(RanksWith(cards, 2)) = 2 THEN "Two Pair"
        ELSE IF \E v \in HIGHS : RankCount(cards, v) = 2
             THEN "Jacks or Better"
        ELSE "Nothing"
\* payoutForRank(paytable, rank, bet)
payoutForRank(id, rank, b) ==
    LET row == paytable(id, rank)
        idx == IF b - 1 < 0 THEN 0 ELSE IF b - 1 > 4 THEN 4 ELSE b - 1
    IN  IF row = <<>> THEN 0 ELSE row[idx + 1]

(***************************************************************************)
(* Payout lookups on a table                                               *)
(***************************************************************************)
\* handOrder of each GameSpec, with the fallback outcome
JOB_ORDER ==
    {"Royal Flush", "Straight Flush", "Four of a Kind", "Full House",
     "Flush", "Straight", "Three of a Kind", "Two Pair", "Jacks or Better"}
DW_ORDER ==
    {"Natural Royal Flush", "Four Deuces", "Wild Royal Flush",
     "Five of a Kind", "Straight Flush", "Four of a Kind", "Full House",
     "Flush", "Straight", "Three of a Kind"}
DDB_ORDER ==
    {"Royal Flush", "Straight Flush", "Four Aces w/2,3,4",
     "Four 2s,3s,4s w/A,2,3,4", "Four Aces", "Four 2s,3s,4s",
     "Four 5s thru Ks", "Full House", "Flush", "Straight",
     "Three of a Kind", "Two Pair", "Jacks or Better"}
handOrder(id) ==
    IF id = IdJOB THEN JOB_ORDER ELSE IF id = IdDW THEN DW_ORDER
    ELSE DDB_ORDER
Outcomes == JOB_ORDER \cup DW_ORDER \cup DDB_ORDER \cup {Nothing}
BetLevels == MinBet .. MaxBet

\* a table as mounted, with a fresh deck
PayInit == Init /\ Len(deck) = NumCards

Looked(fn, rank, b, payout) ==
    /\ bet' = b
    /\ result' = [rank |-> rank, payout |-> payout]
    /\ call' = [op |-> fn, how |-> "ok"]
    /\ UNCHANGED <<specId, credits, deck, hand, holds, phase, isAnimating,
                   initialRank, promptedThisRound, suggestion, hintsEnabled,
                   accCorrect, accTotal, bank, accStore, hintsStore, task,
                   round, calls>>

PayoutFromSpec ==
    \E rank \in Outcomes : \E b \in BetLevels :
        Looked("payoutFromSpec", rank, b, payoutFromSpec(specId, rank, b))
PayoutForRank ==
    \E rank \in Outcomes : \E b \in BetLevels :
        Looked("payoutForRank", rank, b, payoutForRank(specId, rank, b))
PayNext == PayoutFromSpec \/ PayoutForRank

PaySpec == PayInit /\ [][PayNext]_vars

(***************************************************************************)
(* Classifiers and advisors on a dealt hand                                *)
(***************************************************************************)
\* a table whose deal has shown its five cards
HandInit ==
    /\ specId \in SpecIds
    /\ hand \in TestHands(specId)
    /\ credits = StartCredits
    /\ bet = MinBet
    /\ deck = <<>>
    /\ holds = KeepNone
    /\ phase = "deal"
    /\ isAnimating = FALSE
    /\ result = NoResult
    /\ initialRank = Null
    /\ promptedThisRound = FALSE
    /\ suggestion = NoSuggestion
    /\ hintsEnabled = TRUE
    /\ accCorrect = 0
    /\ accTotal = 0
    /\ bank = StartBank
    /\ accStore = [id \in SpecIds |-> <<0, 0>>]
    /\ hintsStore = [id \in SpecIds |-> TRUE]
    /\ task = NoTask
    /\ call = [op |-> "dealt", how |-> "ok"]
    /\ round = NoRound
    /\ calls = 0

Fresh == call.op = "dealt"
Applied(fn, rank, mask) ==
    /\ result' = [rank |-> rank, payout |-> payoutFromSpec(specId, rank, bet)]
    /\ suggestion' = mask
    /\ call' = [op |-> fn, how |-> "ok"]
    /\ UNCHANGED <<specId, credits, bet, deck, hand, holds, phase,
                   isAnimating, initialRank, promptedThisRound, hintsEnabled,
                   accCorrect, accTotal, bank, accStore, hintsStore, task,
                   round, calls>>

\* spec.evaluateHand(hand)
EvaluateHand ==
    Fresh /\ Applied("evaluateHand", evaluateHand(specId, hand), suggestion)
\* the first evaluator, which the standard table began with
EvaluateHandV1 ==
    Fresh /\ specId = IdJOB
          /\ Applied("evaluateHandV1", evaluateHandV1(hand), suggestion)
\* spec.bestHold(hand): the primary mask
BestHold ==
    Fresh /\ Applied("bestHold", Null, bestHold(specId, hand).mask)

\* spec.bestHold(hand): one of the alternate masks
BestHoldAlt ==
    /\ Fresh
    /\ \E m \in bestHold(specId, hand).alts : Applied("bestHoldAlt", Null, m)

HandNext == EvaluateHand \/ EvaluateHandV1 \/ BestHold \/ BestHoldAlt

HandSpec == HandInit /\ [][HandNext]_vars

(***************************************************************************)
(* Properties of the classifiers                                           *)
(***************************************************************************)
JacksUp == {11, 12, 13, 14}
\* how many cards of the hand carry value v
Of(h, v) == Cardinality({i \in Slots : ValOf(h[i]) = v})
\* the hand's cards that are not deuces
NonWild(h) == {i \in Slots : ValOf(h[i]) # 2}
Wilds(h) == HandSize - Cardinality(NonWild(h))

\* the five values of a straight from lo up, the ace standing for 1 in the
\* wheel
Run(lo) == {IF v = 1 THEN AceVal ELSE v : v \in lo .. (lo + 4)}
Runs == {Run(lo) : lo \in 1 .. 10}
HasFlush(h) == \A i, j \in Slots : SuitOf(h[i]) = SuitOf(h[j])
HasStraight(h) == \E r \in Runs : \A v \in r : Of(h, v) = 1
HasKind(h, n) == \E v \in Values : Of(h, v) >= n
HasTwoPair(h) == \E v, w \in Values : v # w /\ Of(h, v) >= 2 /\ Of(h, w) >= 2
HasHighPair(h) == \E v \in JacksUp : Of(h, v) >= 2
\* standard and bonus tables: some paying category's predicate holds
Pays(h) ==
    \/ HasFlush(h) \/ HasStraight(h) \/ HasKind(h, 3)
    \/ HasTwoPair(h) \/ HasHighPair(h)

\* wild-deuce table: what the naturals allow when every deuce may stand for
\* any value and suit
OneSuit(h) == \A i, j \in NonWild(h) : SuitOf(h[i]) = SuitOf(h[j])
Apart(h) == \A i, j \in NonWild(h) : i # j => ValOf(h[i]) # ValOf(h[j])
Within(h, r) == \A i \in NonWild(h) : ValOf(h[i]) \in r
WildKind(h, n) == \E v \in Values \ {2} : Of(h, v) + Wilds(h) >= n
WildCan(h, cat) ==
    CASE cat = "Natural Royal Flush" ->
           Wilds(h) = 0 /\ OneSuit(h) /\ Within(h, Run(10))
      [] cat = "Four Deuces" -> Wilds(h) = 4
      [] cat = "Wild Royal Flush" ->
           Wilds(h) >= 1 /\ OneSuit(h) /\ Apart(h) /\ Within(h, Run(10))
      [] cat = "Five of a Kind" -> WildKind(h, 5)
      [] cat = "Straight Flush" ->
           OneSuit(h) /\ Apart(h) /\ \E r \in Runs : Within(h, r)
      [] cat = "Four of a Kind" -> WildKind(h, 4)
      [] cat = "Full House" ->
           \E v, w \in Values \ {2} :
              /\ v # w /\ Within(h, {v, w})
              /\ Of(h, v) <= 3 /\ Of(h, w) <= 2
      [] cat = "Flush" -> OneSuit(h)
      [] cat = "Straight" -> Apart(h) /\ \E r \in Runs : Within(h, r)
      [] cat = "Three of a Kind" -> WildKind(h, 3)
      [] OTHER -> FALSE
\* the wild-deuce categories from the highest paying down
WildOrder ==
    <<"Natural Royal Flush", "Four Deuces", "Wild Royal Flush",
      "Five of a Kind", "Straight Flush", "Four of a Kind", "Full House",
      "Flush", "Straight", "Three of a Kind">>
WildBest(h) ==
    LET hits == {k \in 1 .. Len(WildOrder) : WildCan(h, WildOrder[k])}
    IN  IF hits = {} THEN Nothing ELSE WildOrder[SetMin(hits)]

Evaluated == call.op = "evaluateHand"

\* C13: for every hand of 5 distinct cards and each variant, classify
\* returns one outcome of the variant's outcome set, and it returns Nothing
\* if and only if no paying category's predicate holds for the hand.
C13_ClassifyTotal ==
    Evaluated =>
       /\ result.rank \in handOrder(specId) \cup {Nothing}
       /\ result.rank = Nothing <=>
             IF specId = IdDW
             THEN \A k \in 1 .. Len(WildOrder) : ~WildCan(hand, WildOrder[k])
             ELSE ~Pays(hand)

\* a pair of tens has been classified on the standard table
C13_Witness ==
    /\ Evaluated /\ specId = IdJOB
    /\ Of(hand, 10) = 2 /\ ~HasKind(hand, 3) /\ ~HasTwoPair(hand)
    /\ result.rank = Nothing

\* C14: isStraight (standard and bonus evaluators) and checkStraight (first
\* evaluator) accept the five values of a hand if and only if they are five
\* distinct consecutive values with the ace high, or the wheel A,2,3,4,5;
\* repeated values and wrap-arounds such as Q,K,A,2,3 are rejected.
C14_Straights ==
    /\ isStraight(ValsOf(hand, Slots)) <=> HasStraight(hand)
    /\ checkStraight(SortedRanks(hand)) <=> HasStraight(hand)

\* the wheel, in two suits, has been classified a Straight
C14_Witness ==
    /\ call.op \in {"evaluateHand", "evaluateHandV1"}
    /\ specId = IdJOB
    /\ ValsOf(hand, Slots) = {AceVal, 2, 3, 4, 5}
    /\ result.rank = "Straight"

\* the value four cards of the hand carry, and the value of the fifth card
QuadValue(h) == CHOOSE v \in Values : Of(h, v) = 4
KickerValue(h) == CHOOSE v \in Values : Of(h, v) = 1
\* the five tiers of the bonus table, by quad and kicker
QuadTier(q, k) ==
    IF q = AceVal
    THEN (IF k \in {2, 3, 4} THEN "Four Aces w/2,3,4" ELSE "Four Aces")
    ELSE IF q \in {2, 3, 4}
    THEN (IF k \in {AceVal, 2, 3, 4} THEN "Four 2s,3s,4s w/A,2,3,4"
          ELSE "Four 2s,3s,4s")
    ELSE "Four 5s thru Ks"

\* C15: on the bonus table every hand with four cards of one value is
\* classified by quad and kicker into one of the five tiers (four aces with
\* a 2/3/4 kicker, four aces, four 2s/3s/4s with an A/2/3/4 kicker, four
\* 2s/3s/4s, four 5s through kings), and at every bet level a kicker tier
\* pays strictly more than its plain tier.
C15_QuadTiers ==
    (Evaluated /\ specId = IdDDB /\ HasKind(hand, 4)) =>
       /\ result.rank = QuadTier(QuadValue(hand), KickerValue(hand))
       /\ \A b \in BetLevels :
             /\ payoutFromSpec(IdDDB, "Four Aces w/2,3,4", b)
                  > payoutFromSpec(IdDDB, "Four Aces", b)
             /\ payoutFromSpec(IdDDB, "Four 2s,3s,4s w/A,2,3,4", b)
                  > payoutFromSpec(IdDDB, "Four 2s,3s,4s", b)

\* four threes with an ace have been classified on the bonus table
C15_Witness ==
    /\ Evaluated /\ specId = IdDDB
    /\ Of(hand, 3) = 4 /\ Of(hand, AceVal) = 1
    /\ result = [rank |-> "Four 2s,3s,4s w/A,2,3,4", payout |-> 160]

\* C16: on the wild-deuce table classify returns the highest-paying
\* category, in the order Natural Royal, Four Deuces, Wild Royal, Five of a
\* Kind, Straight Flush, Four of a Kind, Full House, Flush, Straight, Three
\* of a Kind, Nothing, that the hand completes when each deuce stands for
\* any value and suit; Natural Royal only without a deuce.
C16_WildBest ==
    (Evaluated /\ specId = IdDW) =>
       /\ result.rank = WildBest(hand)
       /\ result.rank = "Natural Royal Flush" => Wilds(hand) = 0

\* two deuces and three suited cards within a run have been classified a
\* Straight Flush
C16_Witness ==
    /\ Evaluated /\ specId = IdDW
    /\ Wilds(hand) = 2
    /\ result.rank = "Straight Flush"

(***************************************************************************)
(* Properties of the payout lookup                                         *)
(***************************************************************************)
PayOps == {"payoutFromSpec", "payoutForRank"}
\* the lookup the last step made, at another bet level
LookupAt(b) ==
    IF call.op = "payoutForRank" THEN payoutForRank(specId, result.rank, b)
    ELSE payoutFromSpec(specId, result.rank, b)
\* the outcomes each variant's paytable has a row for
Rows(id) ==
    IF id = IdJOB
    THEN JOB_ORDER \cup {"Natural Royal Flush", "Wild Royal Flush",
                         "Five of a Kind", "Four Deuces"}
    ELSE IF id = IdDW
    THEN DW_ORDER \cup {"Royal Flush", "Two Pair", "Jacks or Better"}
    ELSE DDB_ORDER \cup {"Natural Royal Flush", "Wild Royal Flush",
                         "Five of a Kind", "Four Deuces"}

\* C17: for every variant and every outcome, with or without a paytable
\* row, the payout looked up is non-decreasing in the bet over levels 1..5.
C17_PayoutMonotone ==
    call.op \in PayOps =>
       \A b \in BetLevels : b >= bet => LookupAt(b) >= result.payout

\* the five-coin royal flush has been looked up on the standard table
C17_Witness ==
    /\ call.op = "payoutFromSpec" /\ specId = IdJOB
    /\ bet = MaxBet
    /\ result = [rank |-> "Royal Flush", payout |-> 4000]

\* C18: the payout looked up for an outcome without a row in the active
\* variant's paytable is 0 at every bet level 1..5, and the lookup yields a
\* number for every outcome.
C18_MissingRowPaysZero ==
    call.op \in PayOps =>
       /\ result.payout \in Nat
       /\ result.rank \notin Rows(specId) => result.payout = 0

\* the plain Four of a Kind, which the bonus table has no row for, has been
\* looked up there at five coins
C18_Witness ==
    /\ call.op \in PayOps /\ specId = IdDDB
    /\ bet = MaxBet
    /\ result = [rank |-> "Four of a Kind", payout |-> 0]

(***************************************************************************)
(* Properties of the wild-deuce advisor                                    *)
(***************************************************************************)
Advised == call.op = "bestHold"
DeuceSlots(h) == Slots \ NonWild(h)
\* the slots of the natural pair of a hand that has one
PairSlots(h) ==
    {i \in NonWild(h) :
        \E j \in NonWild(h) : j # i /\ ValOf(h[j]) = ValOf(h[i])}

\* C19: for every hand that contains all four deuces the wild-deuce
\* advisor's mask is hold-all-5, whatever the fifth card and wherever the
\* deuces lie.
C19_FourDeucesPat ==
    (Advised /\ specId = IdDW /\ Wilds(hand) = 4) => suggestion = KeepAll

\* C20: for every hand of exactly two deuces, a natural pair and a kicker
\* (a Four of a Kind) the wild-deuce advisor's mask is not hold-all-5: it
\* holds the two deuces and the two cards of the pair and discards the
\* kicker.
C20_TwoDeuceQuads ==
    (/\ Advised /\ specId = IdDW
     /\ Wilds(hand) = 2
     /\ Cardinality(PairSlots(hand)) = 2) =>
       /\ evaluateHand(IdDW, hand) = "Four of a Kind"
       /\ suggestion = Mask(DeuceSlots(hand) \cup PairSlots(hand))
       /\ suggestion # KeepAll

\* the advisor has been asked about two deuces, a pair of kings and an ace
\* in the suit of one king, the ace in the first slot
C20_Witness ==
    /\ Advised /\ specId = IdDW
    /\ Wilds(hand) = 2 /\ Of(hand, 13) = 2
    /\ ValOf(hand[1]) = AceVal
    /\ \E i \in Slots : ValOf(hand[i]) = 13 /\ SuitOf(hand[i]) = SuitOf(hand[1])
    /\ suggestion = [i \in Slots |-> i # 1]

(***************************************************************************)
(* Properties of the standard and bonus advisors                           *)
(***************************************************************************)
\* the slots of the royal-valued cards of suit s
RoyalSlots(h, s) ==
    {i \in Slots : SuitOf(h[i]) = s /\ ValOf(h[i]) \in Run(10)}
\* the hand is no more than one pair
AtMostPair(h) ==
    ~HasFlush(h) /\ ~HasStraight(h) /\ ~HasKind(h, 3) /\ ~HasTwoPair(h)

\* C21: on the standard table, for every hand with exactly four cards of one
\* suit valued 10, J, Q, K or A whose fifth card makes at most a pair with
\* them, the advisor's mask holds exactly those four cards and discards the
\* fifth: four to a royal outranks any made pair.
C21_FourToRoyal ==
    (Advised /\ specId = IdJOB /\ AtMostPair(hand)) =>
       \A s \in Suits :
          Cardinality(RoyalSlots(hand, s)) = 4 =>
             suggestion = Mask(RoyalSlots(hand, s))

\* the advisor has been asked about four to a royal with a pair of kings,
\* the off-suit king in the first slot
C21_Witness ==
    /\ Advised /\ specId = IdJOB
    /\ Of(hand, 13) = 2
    /\ \E s \in Suits : RoyalSlots(hand, s) = 2 .. HandSize
    /\ suggestion = [i \in Slots |-> i # 1]

\* the made categories of the standard and the bonus table
MadeHands ==
    {"Royal Flush", "Straight Flush", "Four of a Kind", "Four Aces w/2,3,4",
     "Four 2s,3s,4s w/A,2,3,4", "Four Aces", "Four 2s,3s,4s",
     "Four 5s thru Ks", "Full House", "Flush", "Straight"}
\* the advisor of the standard or the bonus table has been asked about a
\* hand its classifier places in a made category
PatAsked ==
    /\ Advised /\ specId \in {IdJOB, IdDDB}
    /\ evaluateHand(specId, hand) \in MadeHands
\* a flush or straight on the standard table that holds four suited royal
\* cards
BreaksForRoyal(id, h) ==
    /\ id = IdJOB
    /\ evaluateHand(id, h) \in {"Flush", "Straight"}
    /\ \E s \in Suits : Cardinality(RoyalSlots(h, s)) = 4

\* C22: on the standard and the bonus table, for every dealt hand that the
\* variant's classifier places in a made category (royal flush, straight
\* flush, four of a kind of any tier, full house, flush or straight) the
\* advisor's mask is hold-all-5.
C22_PatHands == PatAsked => suggestion = KeepAll

\* C22 as the code has it: the mask is hold-all-5, except that the standard
\* advisor, given a flush or a straight with four suited cards valued 10 to
\* A, holds those four and discards the fifth.
C22_PatUnlessRoyalDraw ==
    PatAsked =>
       IF BreaksForRoyal(specId, hand)
       THEN \A s \in Suits :
               Cardinality(RoyalSlots(hand, s)) = 4 =>
                  suggestion = Mask(RoyalSlots(hand, s))
       ELSE suggestion = KeepAll

\* the bonus advisor has been asked about a flush with four royal cards and
\* holds it pat
C22_Witness ==
    /\ PatAsked /\ specId = IdDDB
    /\ HasFlush(hand) /\ ~HasStraight(hand)
    /\ Cardinality({i \in Slots : ValOf(hand[i]) \in Run(10)}) = 4
    /\ suggestion = KeepAll

(***************************************************************************)
(* Further properties of the round state machine                           *)
(***************************************************************************)
\* C23: a hand of other than five cards (the empty hand, say) that reaches a
\* classifier makes it fail: whenever a draw has been scored, the hand that
\* was classified and paid for had five cards, a card in every slot.
C23_MalformedFailsFast ==
    call.how = "scored" =>
       Len(round.final0) = HandSize /\ Dense(round.final0)

(***************************************************************************)
(* A table played through App's controls (App.tsx)                         *)
(***************************************************************************)
CoachCalls == 6

\* a control of the page that is live calls its handler
Press(n) == calls < CoachCalls /\ Commit(Effects(St, n)) /\ calls' = calls + 1

\* a table mounted with a fresh deck
CoachInit == Init /\ Len(deck) = NumCards

\* Deal button and key d: disabled unless canDeal and no animation
DealKey ==
    /\ canDeal(St) /\ ~isAnimating
    /\ \E seed \in Seeds : Press(deal(St, seed))
\* Draw button and key d
DrawKey == canDraw(St) /\ ~isAnimating /\ Press(draw(St))
\* a click on a card of the hand
HoldClick == \E i \in ToggleSlots : i <= Len(hand) /\ Press(toggleHold(St, i))
\* key h; the key handler returns while an animation runs
HintsKey == ~isAnimating /\ Press(setHintsEnabled(St, ~hintsEnabled))
\* the two buttons of the coaching prompt, rendered while g.suggestion is set
ApplyAndDraw ==
    suggestion # NoSuggestion /\ Press(acceptSuggestionAndDraw(St))
KeepMine == suggestion # NoSuggestion /\ Press(keepMineAndDraw(St))

CoachNext ==
    \/ DealKey \/ DealResume
    \/ DrawKey \/ ApplyAndDraw \/ KeepMine \/ DrawResume
    \/ HoldClick \/ HintsKey

CoachSpec == CoachInit /\ [][CoachNext]_vars

\* C24: within one round, from an accepted deal to the next show, the player
\* is prompted at most once, and a round in which a prompt was shown adds
\* exactly 1 to the total counter and 0 to the correct counter, whatever the
\* player does after the prompt (accept the suggestion, keep their holds,
\* change holds, toggle hints, press draw again).
C24_PromptedRoundScoresZero ==
    [][promptedThisRound /\ phase = "deal" =>
          /\ phase' = "deal" => promptedThisRound' /\ call'.how # "prompt"
          /\ phase' = "show" =>
                /\ accTotal' = round.total0 + 1
                /\ accCorrect' = round.correct0]_vars

(***************************************************************************)
(* Further properties of the wild-deuce advisor                            *)
(***************************************************************************)
\* C25: with no deuce in the hand, a dealt natural royal flush (five cards
\* of one suit valued 10, J, Q, K, A) is held pat: the wild-deuce advisor's
\* mask is hold-all-5.
C25_NaturalRoyalPat ==
    (/\ Advised /\ specId = IdDW
     /\ Wilds(hand) = 0 /\ HasFlush(hand)
     /\ {ValOf(hand[i]) : i \in Slots} = Run(10)) =>
       suggestion = KeepAll

\* C30: for every hand of 5 distinct cards the wild-deuce advisor's primary
\* mask and every alternate mask it returns hold every deuce of the hand.
C30_DeucesHeld ==
    (call.op \in {"bestHold", "bestHoldAlt"} /\ specId = IdDW) =>
       \A i \in DeuceSlots(hand) : suggestion[i]

\* an alternate mask for one deuce with two natural pairs: the deuce and
\* one of the pairs
C30_Witness ==
    /\ call.op = "bestHoldAlt" /\ specId = IdDW
    /\ Wilds(hand) = 1 /\ HasTwoPair(hand)
    /\ \A i \in DeuceSlots(hand) : suggestion[i]
    /\ Cardinality({i \in Slots : suggestion[i]}) = 3

\* C27: a payout is credited at most once per accepted deal and only for a
\* hand that was dealt: whenever a hand has just been scored, the round was
\* opened by a deal and the scored draw is the only draw begun since that
\* deal.
C27_PayoutOncePerDeal ==
    call.how = "scored" => round.dealt /\ round.drawsBegun = 1

\* C28: between an accepted deal and the completion of its draw, that is
\* while the phase is deal, no step changes the bet, so the payout is looked
\* up at the bet level that the deal debited.
C28_BetFixedInRound ==
    [][phase = "deal" => bet' = bet]_vars

\* C29: credits are never negative, whatever operations are called and in
\* whatever order.
C29_CreditsNonNegative == credits >= 0

\* a deal has just taken the last credits: the bet equalled the credits
C29_Witness ==
    /\ call = [op |-> "deal", how |-> "ok"]
    /\ credits = 0
    /\ bet > MinBet

(***************************************************************************)
(* The earlier hook (useGame.ts with timer-driven reveals) and its page    *)
(* (archive/v_9_2/App.tsx)                                                 *)
(***************************************************************************)
LegacyCalls == 8

canDealV1(s) ==
    s.phase \in {"bet", "show"} /\ s.credits >= s.bet /\ ~s.isAnimating
canDrawV1(s) == s.phase \in {"deal", "draw"} /\ ~s.isAnimating

\* reveal timers are pending; the callback of the last one clears isAnimating
Timers == [NoTask EXCEPT !.kind = "timers"]

\* deal(): synchronous, the five reveals on timers
dealV1(s, seed) ==
    IF ~canDealV1(s) \/ s.isAnimating THEN Called(s, "deal", "noop")
    ELSE
      LET d == Restock(s.deck, seed)
          newHand == SubSeq(d, 1, HandSize)
          r == evaluateHand(s.specId, newHand)
      IN  Called([s EXCEPT
                    !.credits = s.credits - s.bet,
                    !.deck = SubSeq(d, HandSize + 1, Len(d)),
                    !.hand = newHand,
                    !.holds = KeepNone,
                    !.phase = "deal",
                    !.result = NoResult,
                    !.promptedThisRound = FALSE,
                    !.suggestion = NoSuggestion,
                    !.initialRank = IF r # Nothing THEN r ELSE Null,
                    !.isAnimating = TRUE,
                    !.task = Timers], "deal", "ok")

\* the callback of the last reveal timer: setIsAnimating(false)
lastTimerV1(s) ==
    Called([s EXCEPT !.isAnimating = FALSE, !.task = NoTask], "timer", "ok")

\* the draw path shared by draw, acceptSuggestionAndDraw and
\* keepMineAndDraw: replace, set isAnimating, one timer per replaced slot,
\* score at once
drawTailV1(s, keepMask, op) ==
    LET replaceIdx == {i \in Slots : ~keepMask[i]}
        newHand == FinalHand(s.hand, s.deck, keepMask)
        d == DropHead(s.deck, Cardinality(ToReplace(s.hand, keepMask)))
        begun == [s EXCEPT !.hand = newHand,
                           !.deck = d,
                           !.isAnimating = TRUE,
                           !.task = IF replaceIdx = {} THEN NoTask ELSE Timers]
        rank == evaluateHand(s.specId, newHand)
        payout == payoutFromSpec(s.specId, rank, s.bet)
    IN  IF rank = THROW THEN Called(begun, op, "throw")
        ELSE Called([begun EXCEPT
                       !.credits = s.credits + payout,
                       !.result = [rank |-> rank, payout |-> payout],
                       !.phase = "show",
                       !.initialRank = Null,
                       !.suggestion = NoSuggestion], op, "scored")

drawV1(s) ==
    LET best == bestHold(s.specId, s.hand)
        isOptimal ==
            \E m \in {best.mask} \cup best.alts : maskEquals(m, s.holds)
        counted ==
            [s EXCEPT !.accTotal = s.accTotal + 1,
                      !.accCorrect =
                          IF isOptimal
                             /\ (~s.hintsEnabled \/ ~s.promptedThisRound)
                          THEN s.accCorrect + 1 ELSE s.accCorrect]
    IN  IF ~canDrawV1(s) \/ s.isAnimating THEN Called(s, "draw", "noop")
        ELSE IF s.hintsEnabled /\ ~s.promptedThisRound /\ ~isOptimal
        THEN Called([s EXCEPT !.suggestion = best.mask,
                              !.promptedThisRound = TRUE], "draw", "prompt")
        ELSE drawTailV1(counted, s.holds, "draw")

acceptSuggestionAndDrawV1(s) ==
    IF s.suggestion = NoSuggestion
    THEN Called(s, "acceptSuggestionAndDraw", "noop")
    ELSE drawTailV1([s EXCEPT !.holds = s.suggestion,
                              !.accTotal = s.accTotal + 1],
                    s.suggestion, "acceptSuggestionAndDraw")

keepMineAndDrawV1(s) ==
    drawTailV1([s EXCEPT !.accTotal = s.accTotal + 1],
               s.holds, "keepMineAndDraw")

\* a live control of the earlier page calls its handler; the hook persists
\* the counters after the render
LegacyPress(n) ==
    calls < LegacyCalls /\ Commit(Persist(n)) /\ calls' = calls + 1

LegacyInit == Init /\ Len(deck) = NumCards

\* Deal and Draw buttons: disabled={!g.canDeal}, disabled={!g.canDraw}
LegacyDeal ==
    canDealV1(St) /\ \E seed \in Seeds : LegacyPress(dealV1(St, seed))
LegacyDraw == canDrawV1(St) /\ LegacyPress(drawV1(St))
\* a click on any card of the hand
LegacyHold ==
    \E i \in Slots : i <= Len(hand) /\ LegacyPress(toggleHold(St, i))
\* the buttons of the prompt, rendered while g.suggestion is set
LegacyApply ==
    suggestion # NoSuggestion /\ LegacyPress(acceptSuggestionAndDrawV1(St))
LegacyKeep ==
    suggestion # NoSuggestion /\ LegacyPress(keepMineAndDrawV1(St))
LegacyTimer ==
    /\ task.kind = "timers"
    /\ Commit(Persist(lastTimerV1(St)))
    /\ calls' = calls

LegacyNext ==
    \/ LegacyDeal \/ LegacyDraw \/ LegacyHold
    \/ LegacyApply \/ LegacyKeep \/ LegacyTimer

\* a timer that has been set fires
LegacySpec == LegacyInit /\ [][LegacyNext]_vars /\ WF_vars(LegacyTimer)

\* C26: every round completes: once a draw has been requested on a dealt
\* five-card hand and scored, whatever the hold mask (hold-all-five, where
\* no card is replaced, included), the table eventually is in phase show
\* with no animation in flight, where a new deal is accepted.
C26_RoundCompletes ==
    (call.how = "scored") ~> (phase = "show" /\ ~isAnimating)

====
